---- MODULE Spec2Model ----
(***************************************************************************)
(* Model of the access-control and approval-workflow subsystem of SGDI:    *)
(*   app/services/workflow_service.py    (WorkflowService)                 *)
(*   app/repositories/workflow_repository.py                               *)
(*   app/services/permission_service.py  (PermissionService)               *)
(*   app/models/permission.py            (Permissao.is_expired)            *)
(* Calls are executed one at a time; every action is one whole service     *)
(* call, from its first check to its commit or rollback.                   *)
(***************************************************************************)
EXTENDS Integers, Sequences, FiniteSets, TLC

VARIABLES
    workflows,    \* table workflows: row id = index
    aprovacoes,   \* table aprovacao_documentos: row id = index
    historico,    \* table historico_aprovacoes, in insertion order
    permissoes,   \* table permissoes, in insertion order
    now,          \* datetime.utcnow()
    calls,        \* the calls in progress, one per request being served
    categorias    \* table categorias: row id = index

vars == <<workflows, aprovacoes, historico, permissoes, now, calls, categorias>>

(***************************************************************************)
(* Bounds of the model.                                                    *)
(***************************************************************************)
MaxTime == 1
MaxApprovals == 2
MaxHist == 3
MaxRows == 2
MaxCats == 3

\* a NULL column value (data_conclusao, data_expiracao)
NULL == -1

\* the requests served at the same time, and a request serving no call
Procs == {1, 2}
Idle == [op |-> "none", pc |-> "idle"]

(***************************************************************************)
(* Fixture rows of the collaborating tables (usuarios, documentos).        *)
(***************************************************************************)
Users == {1, 2, 3, 4}
\* ids passed as documento_id; 3 is the id of no row
DocArgs == {1, 2, 3}
Documentos == {1, 2}
\* Documento.usuario_id, the owner
DocOwner(d) == IF d = 1 THEN 1 ELSE 2

(***************************************************************************)
(* Comments are strings, modelled as sequences of characters.              *)
(***************************************************************************)
WS == " "
Comments == { <<>>, <<WS>>, <<WS, "k">> }

RECURSIVE LStrip(_)
LStrip(s) == IF s # <<>> /\ Head(s) = WS THEN LStrip(Tail(s)) ELSE s

RECURSIVE RStrip(_)
RStrip(s) ==
    IF s # <<>> /\ s[Len(s)] = WS THEN RStrip(SubSeq(s, 1, Len(s) - 1)) ELSE s

\* str.strip()
Strip(s) == RStrip(LStrip(s))

\* `not comentario or not comentario.strip()`
CommentMissing(c) == c = <<>> \/ Strip(c) = <<>>

(***************************************************************************)
(* Workflow configurations: the JSON document {"stages": [...]}.           *)
(***************************************************************************)
MissingKey == "<missing>"

Stage(apps, all) == [name |-> "stage", approvers |-> apps, require_all |-> all]

S1 == Stage(<<1>>, FALSE)
S23all == Stage(<<2, 3>>, TRUE)
S123all == Stage(<<1, 2, 3>>, TRUE)
S123any == Stage(<<1, 2, 3>>, FALSE)
S22all == Stage(<<2, 2>>, TRUE)

\* configurations that _validate_workflow_config accepts
GoodConfigs ==
    { [stages |-> <<S1, S23all>>],
      [stages |-> <<S123all>>],
      [stages |-> <<S123any, S1>>],
      [stages |-> <<S22all>>] }

\* configurations it refuses
BadConfigs ==
    { [stages |-> <<>>],
      [stages |-> <<[name |-> "stage", approvers |-> <<>>, require_all |-> FALSE]>>],
      [stages |-> <<S1, [name |-> MissingKey, approvers |-> <<2>>, require_all |-> FALSE]>>] }

ConfigArgs == GoodConfigs \cup BadConfigs

WorkflowNames == {"wf"}
\* ids passed as workflow_id; an id past the end of the table is the id of no row
WorkflowArgs == {1}
\* ids passed as aprovacao_id; an id past the end of the table is the id of no row
ApprovalArgs == 1..MaxApprovals

Range(s) == { s[i] : i \in DOMAIN s }

\* _validate_workflow_config without the check of the approvers of a stage
ValidWorkflowConfigAnyApprovers(config) ==
    /\ Len(config.stages) # 0
    /\ \A i \in DOMAIN config.stages : config.stages[i].name # MissingKey

\* WorkflowService._validate_workflow_config: TRUE when it raises nothing
ValidWorkflowConfig(config) ==
    /\ Len(config.stages) # 0
    /\ \A i \in DOMAIN config.stages :
          /\ config.stages[i].name # MissingKey
          /\ Len(config.stages[i].approvers) # 0

(***************************************************************************)
(* Queries of the repositories.                                            *)
(***************************************************************************)
get_pending_approvalsWrongLiteral(documento_id) ==
    { i \in DOMAIN aprovacoes :
         /\ aprovacoes[i].documento_id = documento_id
         /\ aprovacoes[i].status = "pending" }

\* AprovacaoDocumentoRepository.get_pending_approvals
get_pending_approvals(documento_id) ==
    { i \in DOMAIN aprovacoes :
         /\ aprovacoes[i].documento_id = documento_id
         /\ aprovacoes[i].status = "pendente" }

\* HistoricoAprovacaoRepository.get_by_approval, over the rows `hist`: the rows
\* of the approval, which _is_stage_complete reads as a set; the orders that
\* order_by(data_acao) can give them are in get_by_approval_ordered
get_by_approval(hist, aprovacao_id) ==
    SelectSeq(hist, LAMBDA h : h.aprovacao_id = aprovacao_id)

\* aprovacao.workflow.configuracao["stages"]
StagesOf(aprovacao) == workflows[aprovacao.workflow_id].configuracao.stages


(***************************************************************************)
(* WorkflowService: private helpers.                                       *)
(***************************************************************************)
IsAuthorizedApproverAnyStage(aprovacao, user_id) ==
    \E i \in DOMAIN StagesOf(aprovacao) : user_id \in Range(StagesOf(aprovacao)[i].approvers)

\* WorkflowService._is_authorized_approver
IsAuthorizedApprover(aprovacao, user_id) ==
    LET stages == StagesOf(aprovacao)
        current_stage_idx == aprovacao.estagio_atual - 1
    IN  IF current_stage_idx >= Len(stages)
        THEN FALSE
        ELSE user_id \in Range(stages[current_stage_idx + 1].approvers)

\* approved_by kept as a list: one element for each 'aprovado' row
ApprovedByEveryRow(aprovacao_id, aprovacao, hist) ==
    { n \in DOMAIN hist :
         /\ hist[n].aprovacao_id = aprovacao_id
         /\ hist[n].estagio = aprovacao.estagio_atual
         /\ hist[n].acao = "aprovado" }

\* the approvers with an 'aprovado' row at the current stage (approved_by)
ApprovedBy(aprovacao_id, aprovacao, hist) ==
    { h.aprovador_id : h \in
        { r \in Range(get_by_approval(hist, aprovacao_id)) :
             r.estagio = aprovacao.estagio_atual /\ r.acao = "aprovado" } }

IsStageCompleteOffByOne(aprovacao_id, aprovacao, acao, hist) ==
    IF acao = "rejeitado" THEN TRUE
    ELSE LET stages == StagesOf(aprovacao)
             current_stage_idx == aprovacao.estagio_atual - 1
         IN  IF current_stage_idx >= Len(stages) THEN TRUE
             ELSE LET stage == stages[current_stage_idx + 1]
                  IN  IF ~stage.require_all THEN TRUE
                      ELSE Cardinality(ApprovedBy(aprovacao_id, aprovacao, hist))
                              >= Len(stage.approvers) - 1

IsStageCompleteAlwaysAll(aprovacao_id, aprovacao, acao, hist) ==
    IF acao = "rejeitado" THEN TRUE
    ELSE LET stages == StagesOf(aprovacao)
             current_stage_idx == aprovacao.estagio_atual - 1
         IN  IF current_stage_idx >= Len(stages) THEN TRUE
             ELSE LET stage == stages[current_stage_idx + 1]
                  IN  Cardinality(ApprovedBy(aprovacao_id, aprovacao, hist))
                         >= Len(stage.approvers)

\* WorkflowService._is_stage_complete; `hist` is the ledger the query sees,
\* which holds the row the caller has just added (the query autoflushes it)
IsStageComplete(aprovacao_id, aprovacao, acao, hist) ==
    IF acao = "rejeitado" THEN TRUE
    ELSE LET stages == StagesOf(aprovacao)
             current_stage_idx == aprovacao.estagio_atual - 1
         IN  IF current_stage_idx >= Len(stages) THEN TRUE
             ELSE LET stage == stages[current_stage_idx + 1]
                  IN  IF ~stage.require_all THEN TRUE
                      ELSE Cardinality(ApprovedBy(aprovacao_id, aprovacao, hist))
                              >= Len(stage.approvers)

AdvanceSkipsLast(aprovacao, t) ==
    IF aprovacao.estagio_atual <= Len(StagesOf(aprovacao))
    THEN [aprovacao EXCEPT !.estagio_atual = @ + 1]
    ELSE [aprovacao EXCEPT !.status = "aprovado", !.data_conclusao = t]

\* approve_document, the branch taken when the stage is complete:
\* move to the next stage or complete the workflow
Advance(aprovacao, t) ==
    IF aprovacao.estagio_atual < Len(StagesOf(aprovacao))
    THEN [aprovacao EXCEPT !.estagio_atual = @ + 1]
    ELSE [aprovacao EXCEPT !.status = "aprovado", !.data_conclusao = t]

RejectedNoDate(aprovacao, t) == [aprovacao EXCEPT !.status = "rejeitado"]

\* reject_document: one rejection ends the workflow
Rejected(aprovacao, t) ==
    [aprovacao EXCEPT !.status = "rejeitado", !.data_conclusao = t]

NotPendingOnlyRejected(aprovacao) == aprovacao.status = "rejeitado"

\* approve_document / reject_document: `aprovacao.status != 'pendente'`
NotPending(aprovacao) == aprovacao.status # "pendente"

\* a row of historico_aprovacoes, data_acao being utcnow() by the column's
\* default; the column comentario is never read back and is left out
HistoricoRow(aprovacao_id, estagio, aprovador_id, acao) ==
    [aprovacao_id |-> aprovacao_id, estagio |-> estagio,
     aprovador_id |-> aprovador_id, acao |-> acao, data_acao |-> now]


(***************************************************************************)
(* WorkflowService: the public operations.  Each has an operator for the   *)
(* error the call raises ("none" when it raises nothing) and an action for *)
(* the call.  A call that raises rolls the session back, so it leaves      *)
(* every table as it was.                                                  *)
(***************************************************************************)
Raises == UNCHANGED vars

\* WorkflowService.create_workflow: the checks before the insert
CreateWorkflowError(nome, configuracao) ==
    IF ~ValidWorkflowConfig(configuracao) THEN "InvalidWorkflowConfig"
    ELSE IF \E w \in DOMAIN workflows : workflows[w].nome = nome THEN "DuplicateName"
    ELSE "none"

\* WorkflowService.create_workflow
CreateWorkflow(nome, configuracao) ==
    IF CreateWorkflowError(nome, configuracao) # "none" THEN Raises
    ELSE /\ workflows' = Append(workflows,
                [nome |-> nome, configuracao |-> configuracao, ativo |-> TRUE])
         /\ UNCHANGED <<aprovacoes, historico, permissoes, now, calls, categorias>>

\* WorkflowService.update_workflow: the checks before the update
UpdateWorkflowError(workflow_id, configuracao, ativo) ==
    IF workflow_id \notin DOMAIN workflows THEN "WorkflowNotFound"
    ELSE IF configuracao # <<>> /\ ~ValidWorkflowConfig(configuracao[1])
    THEN "InvalidWorkflowConfig"
    ELSE "none"

UpdateWorkflowAppendsVersion(workflow_id, configuracao, ativo) ==
    IF UpdateWorkflowError(workflow_id, configuracao, ativo) # "none" THEN Raises
    ELSE /\ workflows' = Append(workflows,
                [nome |-> workflows[workflow_id].nome,
                 configuracao |->
                     IF configuracao # <<>> THEN configuracao[1]
                     ELSE workflows[workflow_id].configuracao,
                 ativo |-> IF ativo # <<>> THEN ativo[1] ELSE workflows[workflow_id].ativo])
         /\ UNCHANGED <<aprovacoes, historico, permissoes, now, calls, categorias>>

\* WorkflowService.update_workflow; an argument left out (None) is <<>>
UpdateWorkflow(workflow_id, configuracao, ativo) ==
    IF UpdateWorkflowError(workflow_id, configuracao, ativo) # "none" THEN Raises
    ELSE /\ workflows' = [workflows EXCEPT
                ![workflow_id].configuracao =
                    IF configuracao # <<>> THEN configuracao[1] ELSE @,
                ![workflow_id].ativo = IF ativo # <<>> THEN ativo[1] ELSE @]
         /\ UNCHANGED <<aprovacoes, historico, permissoes, now, calls, categorias>>

\* submit_for_approval without the check of workflow.ativo
SubmitForApprovalErrorIgnoresAtivo(documento_id, workflow_id, submetido_por) ==
    IF workflow_id \notin DOMAIN workflows THEN "WorkflowNotFound"
    ELSE IF documento_id \notin Documentos THEN "DocumentNotFound"
    ELSE IF get_pending_approvals(documento_id) # {} THEN "AlreadyPending"
    ELSE "none"

\* WorkflowService.submit_for_approval: the checks before the insert
SubmitForApprovalError(documento_id, workflow_id, submetido_por) ==
    IF workflow_id \notin DOMAIN workflows THEN "WorkflowNotFound"
    ELSE IF ~workflows[workflow_id].ativo THEN "WorkflowInactive"
    ELSE IF documento_id \notin Documentos THEN "DocumentNotFound"
    ELSE IF get_pending_approvals(documento_id) # {} THEN "AlreadyPending"
    ELSE "none"

\* WorkflowService.submit_for_approval: the instance added and committed
SubmitForApprovalCommitted(documento_id, workflow_id, submetido_por) ==
    /\ Len(aprovacoes) < MaxApprovals
    /\ aprovacoes' = Append(aprovacoes,
           [documento_id |-> documento_id, workflow_id |-> workflow_id,
            submetido_por |-> submetido_por, estagio_atual |-> 1,
            status |-> "pendente", data_conclusao |-> NULL])
    /\ UNCHANGED <<workflows, historico, permissoes, now, categorias>>

\* WorkflowService.submit_for_approval
SubmitForApproval(documento_id, workflow_id, submetido_por) ==
    IF SubmitForApprovalError(documento_id, workflow_id, submetido_por) # "none"
    THEN Raises
    ELSE SubmitForApprovalCommitted(documento_id, workflow_id, submetido_por) /\ UNCHANGED calls

\* WorkflowService.approve_document: the checks before the ledger entry
ApproveDocumentError(aprovacao_id, aprovador_id, comentario) ==
    IF aprovacao_id \notin DOMAIN aprovacoes THEN "ApprovalNotFound"
    ELSE IF NotPending(aprovacoes[aprovacao_id]) THEN "NotPending"
    ELSE IF ~IsAuthorizedApprover(aprovacoes[aprovacao_id], aprovador_id)
    THEN "UnauthorizedApprover"
    ELSE "none"

\* WorkflowService.approve_document: the ledger row and the instance as committed
ApproveDocumentCommitted(aprovacao_id, aprovador_id, comentario) ==
    LET aprovacao == aprovacoes[aprovacao_id]
        hist == Append(historico,
                   HistoricoRow(aprovacao_id, aprovacao.estagio_atual,
                                aprovador_id, "aprovado"))
    IN  /\ Len(historico) < MaxHist
        /\ historico' = hist
        /\ aprovacoes' =
              IF IsStageComplete(aprovacao_id, aprovacao, "aprovado", hist)
              THEN [aprovacoes EXCEPT ![aprovacao_id] = Advance(aprovacao, now)]
              ELSE aprovacoes
        /\ UNCHANGED <<workflows, permissoes, now, categorias>>

\* WorkflowService.approve_document
ApproveDocument(aprovacao_id, aprovador_id, comentario) ==
    IF ApproveDocumentError(aprovacao_id, aprovador_id, comentario) # "none"
    THEN Raises
    ELSE ApproveDocumentCommitted(aprovacao_id, aprovador_id, comentario) /\ UNCHANGED calls

\* WorkflowService.reject_document: the checks before the ledger entry
RejectDocumentError(aprovacao_id, aprovador_id, comentario) ==
    IF CommentMissing(comentario) THEN "CommentMandatory"
    ELSE IF aprovacao_id \notin DOMAIN aprovacoes THEN "ApprovalNotFound"
    ELSE IF NotPending(aprovacoes[aprovacao_id]) THEN "NotPending"
    ELSE IF ~IsAuthorizedApprover(aprovacoes[aprovacao_id], aprovador_id)
    THEN "UnauthorizedApprover"
    ELSE "none"

\* WorkflowService.reject_document: the ledger row and the instance as committed
RejectDocumentCommitted(aprovacao_id, aprovador_id, comentario) ==
    LET aprovacao == aprovacoes[aprovacao_id] IN
    /\ Len(historico) < MaxHist
    /\ historico' = Append(historico,
           HistoricoRow(aprovacao_id, aprovacao.estagio_atual,
                        aprovador_id, "rejeitado"))
    /\ aprovacoes' = [aprovacoes EXCEPT ![aprovacao_id] = Rejected(aprovacao, now)]
    /\ UNCHANGED <<workflows, permissoes, now, categorias>>

\* WorkflowService.reject_document
RejectDocument(aprovacao_id, aprovador_id, comentario) ==
    IF RejectDocumentError(aprovacao_id, aprovador_id, comentario) # "none"
    THEN Raises
    ELSE RejectDocumentCommitted(aprovacao_id, aprovador_id, comentario) /\ UNCHANGED calls

\* the clock read by datetime.utcnow() advances
Tick ==
    /\ now < MaxTime
    /\ now' = now + 1
    /\ UNCHANGED <<workflows, aprovacoes, historico, permissoes, calls, categorias>>

(***************************************************************************)
(* The workflow engine: an empty database, calls made one at a time.  The  *)
(* engine reads the clock only to stamp data_conclusao.                    *)
(***************************************************************************)
Init ==
    /\ workflows = <<>>
    /\ aprovacoes = <<>>
    /\ historico = <<>>
    /\ permissoes = <<>>
    /\ now = 0
    /\ calls = [p \in Procs |-> Idle]
    /\ categorias = <<>>

SubmitterArgs == {4}
OptConfigArgs == {<<>>} \cup { <<c>> : c \in ConfigArgs }
OptAtivoArgs == {<<>>, <<TRUE>>, <<FALSE>>}

Next ==
    \/ \E nome \in WorkflowNames, c \in ConfigArgs : CreateWorkflow(nome, c)
    \/ \E w \in WorkflowArgs, a \in OptAtivoArgs : UpdateWorkflow(w, <<>>, a)
    \/ \E d \in DocArgs, w \in WorkflowArgs, u \in SubmitterArgs :
          SubmitForApproval(d, w, u)
    \/ \E i \in ApprovalArgs, u \in Users, c \in Comments : ApproveDocument(i, u, c)
    \/ \E i \in ApprovalArgs, u \in Users, c \in Comments : RejectDocument(i, u, c)

Spec == Init /\ [][Next]_vars


(***************************************************************************)
(* PermissionService.                                                      *)
(***************************************************************************)
\* PermissionService.VALID_PERMISSION_TYPES
VALID_PERMISSION_TYPES == {"visualizar", "editar", "excluir", "compartilhar"}

\* rows of usuarios: id 5 is the id of no row, user 4 has ativo = False
UserExists(u) == u \in Users
UserAtivo(u) == u # 4

\* query(Permissao).filter_by(documento_id, usuario_id, tipo_permissao)
\* .first(): the index of the first matching row, 0 for None
FirstPermission(documento_id, usuario_id, tipo_permissao) ==
    LET found == { n \in DOMAIN permissoes :
                      /\ permissoes[n].documento_id = documento_id
                      /\ permissoes[n].usuario_id = usuario_id
                      /\ permissoes[n].tipo_permissao = tipo_permissao }
    IN  IF found = {} THEN 0
        ELSE CHOOSE n \in found : \A m \in found : n <= m

is_expiredInclusive(permission) ==
    IF permission.data_expiracao # NULL
    THEN permission.data_expiracao <= now
    ELSE FALSE

\* Permissao.is_expired
is_expired(permission) ==
    IF permission.data_expiracao # NULL
    THEN permission.data_expiracao < now
    ELSE FALSE

\* `permission and not permission.is_expired()`
Unexpired(documento_id, user_id, tipo_permissao) ==
    LET n == FirstPermission(documento_id, user_id, tipo_permissao)
    IN  n # 0 /\ ~is_expired(permissoes[n])

check_permissionAnyKindImplies(documento_id, user_id, permission_type) ==
    IF DocOwner(documento_id) = user_id THEN TRUE
    ELSE IF Unexpired(documento_id, user_id, permission_type) THEN TRUE
    ELSE \E perm_type \in {"editar", "excluir", "compartilhar"} :
            Unexpired(documento_id, user_id, perm_type)

check_permissionShareForgotten(documento_id, user_id, permission_type) ==
    IF DocOwner(documento_id) = user_id THEN TRUE
    ELSE IF Unexpired(documento_id, user_id, permission_type) THEN TRUE
    ELSE IF permission_type = "visualizar"
    THEN \E perm_type \in {"editar", "excluir"} :
            Unexpired(documento_id, user_id, perm_type)
    ELSE FALSE

\* PermissionService.check_permission, for a valid permission_type
check_permission(documento_id, user_id, permission_type) ==
    IF DocOwner(documento_id) = user_id THEN TRUE
    ELSE IF Unexpired(documento_id, user_id, permission_type) THEN TRUE
    ELSE IF permission_type = "visualizar"
    THEN \E perm_type \in {"editar", "excluir", "compartilhar"} :
            Unexpired(documento_id, user_id, perm_type)
    ELSE FALSE

\* PermissionService.check_permission: the check of permission_type
CheckPermissionError(permission_type) ==
    IF permission_type \notin VALID_PERMISSION_TYPES THEN "InvalidPermissionType"
    ELSE "none"

\* PermissionService.check_permission, as a call: it queries and writes nothing
CheckPermission(documento_id, user_id, permission_type) ==
    UNCHANGED vars

MayShareExpiredToo(documento_id, user_id) ==
    \/ DocOwner(documento_id) = user_id
    \/ FirstPermission(documento_id, user_id, "compartilhar") # 0

\* grant_permission / revoke_permission: the caller may manage the grants
MayShare(documento_id, user_id) ==
    \/ DocOwner(documento_id) = user_id
    \/ check_permission(documento_id, user_id, "compartilhar")

\* PermissionService.grant_permission: the checks before the upsert
GrantPermissionError(documento_id, target_user_id, permission_type, granted_by_user_id) ==
    IF permission_type \notin VALID_PERMISSION_TYPES THEN "InvalidPermissionType"
    ELSE IF ~MayShare(documento_id, granted_by_user_id) THEN "PermissionDenied"
    ELSE IF ~UserExists(target_user_id) THEN "UserNotFound"
    ELSE IF ~UserAtivo(target_user_id) THEN "InactiveUser"
    ELSE "none"

UpsertedKeepsExpiry(documento_id, target_user_id, permission_type, granted_by_user_id, expiration_date) ==
    LET n == FirstPermission(documento_id, target_user_id, permission_type) IN
    IF n # 0
    THEN [permissoes EXCEPT
            ![n].concedido_por = granted_by_user_id,
            ![n].data_concessao = now]
    ELSE Append(permissoes,
            [documento_id |-> documento_id,
             usuario_id |-> target_user_id,
             tipo_permissao |-> permission_type,
             concedido_por |-> granted_by_user_id,
             data_concessao |-> now,
             data_expiracao |-> expiration_date])

\* PermissionService.grant_permission: the table after the update of the
\* existing row or the insert of a new one
Upserted(documento_id, target_user_id, permission_type, granted_by_user_id, expiration_date) ==
    LET n == FirstPermission(documento_id, target_user_id, permission_type) IN
    IF n # 0
    THEN [permissoes EXCEPT
            ![n].concedido_por = granted_by_user_id,
            ![n].data_concessao = now,
            ![n].data_expiracao = expiration_date]
    ELSE Append(permissoes,
            [documento_id |-> documento_id,
             usuario_id |-> target_user_id,
             tipo_permissao |-> permission_type,
             concedido_por |-> granted_by_user_id,
             data_concessao |-> now,
             data_expiracao |-> expiration_date])

\* PermissionService.grant_permission: the row as committed
GrantPermissionCommitted(documento_id, target_user_id, permission_type, granted_by_user_id, expiration_date) ==
    /\ Len(Upserted(documento_id, target_user_id, permission_type,
                    granted_by_user_id, expiration_date)) <= MaxRows
    /\ permissoes' = Upserted(documento_id, target_user_id, permission_type,
                              granted_by_user_id, expiration_date)
    /\ UNCHANGED <<workflows, aprovacoes, historico, now, categorias>>

\* PermissionService.grant_permission
GrantPermission(documento_id, target_user_id, permission_type, granted_by_user_id, expiration_date) ==
    IF GrantPermissionError(documento_id, target_user_id, permission_type, granted_by_user_id) # "none"
    THEN Raises
    ELSE GrantPermissionCommitted(documento_id, target_user_id, permission_type, granted_by_user_id, expiration_date) /\ UNCHANGED calls

\* PermissionService.revoke_permission: the check before the delete
RevokePermissionError(documento_id, revoked_by_user_id) ==
    IF ~MayShare(documento_id, revoked_by_user_id) THEN "PermissionDenied"
    ELSE "none"

\* PermissionService.revoke_permission: the delete as committed
RevokePermissionCommitted(documento_id, target_user_id, permission_type, revoked_by_user_id) ==
    LET n == FirstPermission(documento_id, target_user_id, permission_type) IN
    /\ permissoes' =
          IF n # 0
          THEN SubSeq(permissoes, 1, n - 1) \o SubSeq(permissoes, n + 1, Len(permissoes))
          ELSE permissoes
    /\ UNCHANGED <<workflows, aprovacoes, historico, now, categorias>>

\* PermissionService.revoke_permission
RevokePermission(documento_id, target_user_id, permission_type, revoked_by_user_id) ==
    IF RevokePermissionError(documento_id, revoked_by_user_id) # "none"
    THEN Raises
    ELSE RevokePermissionCommitted(documento_id, target_user_id, permission_type, revoked_by_user_id) /\ UNCHANGED calls

\* PermissionService.revoke_all_permissions: the check before the delete
RevokeAllPermissionsError(documento_id, revoked_by_user_id) ==
    IF ~MayShare(documento_id, revoked_by_user_id) THEN "PermissionDenied"
    ELSE "none"

\* PermissionService.revoke_all_permissions
RevokeAllPermissions(documento_id, target_user_id, revoked_by_user_id) ==
    IF RevokeAllPermissionsError(documento_id, revoked_by_user_id) # "none" THEN Raises
    ELSE LET Keep(r) == ~(r.documento_id = documento_id /\ r.usuario_id = target_user_id) IN
         /\ permissoes' = SelectSeq(permissoes, Keep)
         /\ UNCHANGED <<workflows, aprovacoes, historico, now, calls, categorias>>

\* PermissionService.cleanup_expired_permissions
CleanupExpiredPermissions ==
    LET Keep(r) == ~(r.data_expiracao # NULL /\ r.data_expiracao < now) IN
    /\ permissoes' = SelectSeq(permissoes, Keep)
    /\ UNCHANGED <<workflows, aprovacoes, historico, now, calls, categorias>>

\* arguments of the calls
KindArgs == VALID_PERMISSION_TYPES \cup {"admin"}
TargetArgs == {2, 4}
GranterArgs == {1, 2}
\* the document whose grants are managed
GrantDocArgs == {1}
ExpirationArgs == {NULL, 0, 1}

(***************************************************************************)
(* The permission store and evaluator: no grant at first, calls made one   *)
(* at a time while the clock advances.                                     *)
(***************************************************************************)
PermNext ==
    \/ \E d \in GrantDocArgs, u \in GranterArgs, k \in KindArgs :
          CheckPermission(d, u, k)
    \/ \E d \in GrantDocArgs, t \in TargetArgs, k \in KindArgs,
          g \in GranterArgs, e \in ExpirationArgs : GrantPermission(d, t, k, g, e)
    \/ \E d \in GrantDocArgs, t \in TargetArgs, k \in KindArgs, g \in GranterArgs :
          RevokePermission(d, t, k, g)
    \/ \E d \in GrantDocArgs, t \in TargetArgs, g \in GranterArgs :
          RevokeAllPermissions(d, t, g)
    \/ CleanupExpiredPermissions
    \/ Tick

PermSpec == Init /\ [][PermNext]_vars

(***************************************************************************)
(* Vocabulary of the properties, stated on the tables alone.               *)
(***************************************************************************)
PendingOf(d) ==
    { i \in DOMAIN aprovacoes :
         aprovacoes[i].documento_id = d /\ aprovacoes[i].status = "pendente" }

IsPending(i) == i \in DOMAIN aprovacoes /\ aprovacoes[i].status = "pendente"

IsTerminal(i) == i \in DOMAIN aprovacoes /\ aprovacoes[i].status # "pendente"

\* the number of stages of the workflow of instance i
NumStages(i) == Len(workflows[aprovacoes[i].workflow_id].configuracao.stages)

HasCurrentStage(i) == aprovacoes[i].estagio_atual \in 1..NumStages(i)

CurrentStage(i) ==
    workflows[aprovacoes[i].workflow_id].configuracao.stages[aprovacoes[i].estagio_atual]

\* the approver set of the current stage of instance i
ApproverSet(i) ==
    IF HasCurrentStage(i) THEN Range(CurrentStage(i).approvers) ELSE {}

\* the ledger of instance i
Ledger(hist, i) == SelectSeq(hist, LAMBDA h : h.aprovacao_id = i)

\* the users with an approved entry of instance i at stage k
Voted(hist, i, k) ==
    { hist[n].aprovador_id : n \in
        { m \in DOMAIN hist : /\ hist[m].aprovacao_id = i
                              /\ hist[m].estagio = k
                              /\ hist[m].acao = "aprovado" } }

\* in this step instance i left stage k: it moved on to k + 1 or was approved
StageCompleted(i, k) ==
    /\ aprovacoes[i].estagio_atual = k
    /\ aprovacoes[i].status = "pendente"
    /\ \/ aprovacoes'[i].estagio_atual = k + 1
       \/ aprovacoes'[i].status = "aprovado"

\* this step appended an entry to the ledger
Appended == Len(historico') = Len(historico) + 1

NewEntry == historico'[Len(historico')]

\* this step is a call approve(i, _, _) that succeeded: it appended an
\* approved entry of instance i
ApproveStep(i) ==
    /\ Appended
    /\ NewEntry.aprovacao_id = i
    /\ NewEntry.acao = "aprovado"
    /\ ApproveDocument(i, NewEntry.aprovador_id, <<>>)

\* this step is a call reject(i, _, _) that succeeded: it appended a
\* rejected entry of instance i
RejectStep(i) ==
    /\ Appended
    /\ NewEntry.aprovacao_id = i
    /\ NewEntry.acao = "rejeitado"
    /\ RejectDocument(i, NewEntry.aprovador_id, <<"k">>)

\* a comment that is neither empty nor made of whitespace only
HasText(c) == \E n \in DOMAIN c : c[n] # WS

\* the approvers configured at any stage of the workflow of instance i
AnyStageApprovers(i) ==
    UNION { Range(workflows[aprovacoes[i].workflow_id].configuracao.stages[k].approvers) :
               k \in 1..NumStages(i) }

(***************************************************************************)
(* C1: calls being made one at a time, every document has at most one      *)
(* pending approval instance in every reachable state, and a                *)
(* submitForApproval (of an existing document to an active workflow) on a  *)
(* document that has a pending instance fails with AlreadyPending and       *)
(* creates no instance.                                                     *)
(***************************************************************************)
C1_SinglePending ==
    /\ [](\A d \in Documentos :
            /\ Cardinality(PendingOf(d)) <= 1
            /\ \A w \in DOMAIN workflows, u \in SubmitterArgs :
                  (PendingOf(d) # {} /\ workflows[w].ativo)
                     => SubmitForApprovalError(d, w, u) = "AlreadyPending")
    /\ [][Len(aprovacoes') # Len(aprovacoes) =>
            LET n == Len(aprovacoes') IN
            /\ n = Len(aprovacoes) + 1
            /\ aprovacoes'[n].status = "pendente"
            /\ PendingOf(aprovacoes'[n].documento_id) = {}]_vars

\* a document that was through one approval is pending in a second one, and
\* a further submission of it is refused
C1_Witness ==
    \E d \in Documentos :
        /\ Cardinality(PendingOf(d)) = 1
        /\ \E i \in DOMAIN aprovacoes :
              aprovacoes[i].documento_id = d /\ aprovacoes[i].status # "pendente"
        /\ \E w \in DOMAIN workflows, u \in SubmitterArgs :
              SubmitForApprovalError(d, w, u) = "AlreadyPending"

(***************************************************************************)
(* C2: once an instance is approved or rejected, no step changes its       *)
(* status, current stage or completedAt nor its ledger; every later        *)
(* approve, and every later reject that carries a comment, fails with the  *)
(* not-pending error, whoever the user is (a reject without a comment is   *)
(* refused as well, by the comment check).                                 *)
(***************************************************************************)
C2_TerminalIsFinal ==
    /\ [](\A i \in DOMAIN aprovacoes, u \in Users, c \in Comments :
            IsTerminal(i) =>
               /\ ApproveDocumentError(i, u, c) = "NotPending"
               /\ RejectDocumentError(i, u, c) =
                     IF CommentMissing(c) THEN "CommentMandatory" ELSE "NotPending")
    /\ [][\A i \in DOMAIN aprovacoes : IsTerminal(i) =>
            /\ aprovacoes'[i] = aprovacoes[i]
            /\ Ledger(historico', i) = Ledger(historico, i)]_vars

\* an approved and a rejected instance exist, some step was taken after they
\* became terminal, and the approvers of their stages are refused
C2_Witness ==
    \E i, j \in DOMAIN aprovacoes :
        /\ aprovacoes[i].status = "aprovado"
        /\ aprovacoes[j].status = "rejeitado"
        /\ \E u \in ApproverSet(i), c \in Comments :
              /\ HasText(c)
              /\ ApproveDocumentError(i, u, c) = "NotPending"
              /\ RejectDocumentError(i, u, c) = "NotPending"
        /\ \E u \in ApproverSet(j), c \in Comments :
              /\ HasText(c)
              /\ ApproveDocumentError(j, u, c) = "NotPending"
              /\ RejectDocumentError(j, u, c) = "NotPending"


(***************************************************************************)
(* C3 as stated: a reject with a non-empty comment by a member of the      *)
(* current stage's approver set on a pending instance always sets status   *)
(* to rejected and sets completedAt.                                       *)
(***************************************************************************)
C3_RejectWithNonEmptyComment ==
    \A i \in DOMAIN aprovacoes, u \in Users, c \in Comments :
        (c # <<>> /\ IsPending(i) /\ u \in ApproverSet(i))
           => RejectDocumentError(i, u, c) = "none"

(***************************************************************************)
(* C3, amended: a reject whose comment is neither empty nor made of        *)
(* whitespace only, by a member of the current stage's approver set on a   *)
(* pending instance, always sets status to rejected and sets completedAt,  *)
(* at any stage, whether the stage is require-all or not, and whatever     *)
(* approvals other approvers have recorded at that stage.                  *)
(***************************************************************************)
C3_RejectIsFinal ==
    /\ [](\A i \in DOMAIN aprovacoes, u \in Users, c \in Comments :
            (HasText(c) /\ IsPending(i) /\ u \in ApproverSet(i))
               => RejectDocumentError(i, u, c) = "none")
    /\ [][\A i \in DOMAIN aprovacoes :
            RejectStep(i)
               => /\ aprovacoes'[i].status = "rejeitado"
                  /\ aprovacoes'[i].data_conclusao # NULL
                  /\ aprovacoes'[i].estagio_atual = aprovacoes[i].estagio_atual]_vars

\* an instance was rejected at a require-all stage past the first one, at
\* which another approver had already recorded an approval
C3_Witness ==
    \E i \in DOMAIN aprovacoes :
        /\ aprovacoes[i].status = "rejeitado"
        /\ aprovacoes[i].data_conclusao # NULL
        /\ aprovacoes[i].estagio_atual > 1
        /\ CurrentStage(i).require_all
        /\ Voted(historico, i, aprovacoes[i].estagio_atual) # {}
        /\ historico[Len(historico)].aprovacao_id = i
        /\ historico[Len(historico)].estagio = aprovacoes[i].estagio_atual
        /\ historico[Len(historico)].acao = "rejeitado"

(***************************************************************************)
(* C4: at a require-all stage whose configured approvers are distinct      *)
(* users (three of them in the witness), the definition being unchanged,   *)
(* a successful approve completes the stage exactly when every configured  *)
(* approver has then approved at that stage, in whatever order they did;   *)
(* otherwise the instance stays pending at the same stage.                 *)
(***************************************************************************)
C4_RequireAllGating ==
    [][\A i \in DOMAIN aprovacoes :
          ( /\ ApproveStep(i)
            /\ HasCurrentStage(i)
            /\ CurrentStage(i).require_all
            /\ Cardinality(ApproverSet(i)) = Len(CurrentStage(i).approvers) )
          => LET k == aprovacoes[i].estagio_atual IN
             IF ApproverSet(i) \subseteq Voted(historico', i, k)
             THEN StageCompleted(i, k)
             ELSE aprovacoes'[i] = aprovacoes[i]]_vars

\* a stage with three approvers was completed by the approval of the third
C4_Witness ==
    \E i \in DOMAIN aprovacoes :
        /\ aprovacoes[i].status = "aprovado"
        /\ CurrentStage(i).require_all
        /\ Cardinality(ApproverSet(i)) = 3
        /\ Voted(historico, i, aprovacoes[i].estagio_atual) = ApproverSet(i)

(***************************************************************************)
(* C5: at a stage with require-all false, the first approve by any member  *)
(* of the stage's approver set succeeds and completes the stage, however   *)
(* many approvers the stage has.                                           *)
(***************************************************************************)
C5_FirstApprovalWins ==
    /\ [](\A i \in DOMAIN aprovacoes, u \in Users, c \in Comments :
            (IsPending(i) /\ HasCurrentStage(i) /\ ~CurrentStage(i).require_all
                /\ u \in ApproverSet(i))
               => ApproveDocumentError(i, u, c) = "none")
    /\ [][\A i \in DOMAIN aprovacoes :
            (ApproveStep(i) /\ HasCurrentStage(i) /\ ~CurrentStage(i).require_all)
               => StageCompleted(i, aprovacoes[i].estagio_atual)]_vars

\* a stage with three approvers and require-all false was left after one
\* approval
C5_Witness ==
    \E i \in DOMAIN aprovacoes :
        /\ aprovacoes[i].estagio_atual = 2
        /\ aprovacoes[i].status = "pendente"
        /\ LET first == workflows[aprovacoes[i].workflow_id].configuracao.stages[1]
           IN  ~first.require_all /\ Len(first.approvers) = 3
        /\ Len(Ledger(historico, i)) = 1

(***************************************************************************)
(* C6: an approve, or a reject that carries a comment, on a pending        *)
(* instance by a user who is not in the current stage's approver set fails *)
(* with UnauthorizedApprover; no approve or reject by such a user changes  *)
(* the instance's status, current stage or completedAt or appends a ledger *)
(* entry.                                                                  *)
(***************************************************************************)
C6_UnauthorizedApprover ==
    /\ [](\A i \in DOMAIN aprovacoes, u \in Users, c \in Comments :
            (IsPending(i) /\ u \notin ApproverSet(i)) =>
               /\ ApproveDocumentError(i, u, c) = "UnauthorizedApprover"
               /\ RejectDocumentError(i, u, c) =
                     IF CommentMissing(c) THEN "CommentMandatory"
                     ELSE "UnauthorizedApprover")
    /\ [][/\ historico' # historico =>
                /\ Appended
                /\ SubSeq(historico', 1, Len(historico)) = historico
                /\ IsPending(NewEntry.aprovacao_id)
                /\ NewEntry.aprovador_id \in ApproverSet(NewEntry.aprovacao_id)
          /\ \A i \in DOMAIN aprovacoes :
                aprovacoes'[i] # aprovacoes[i] =>
                    Appended /\ NewEntry.aprovacao_id = i]_vars

\* a user who approves at another stage of the workflow is refused at the
\* current one, at which an approval is already recorded
C6_Witness ==
    \E i \in DOMAIN aprovacoes, u \in Users, c \in Comments :
        /\ aprovacoes[i].status = "pendente"
        /\ u \notin ApproverSet(i)
        /\ u \in AnyStageApprovers(i)
        /\ Voted(historico, i, aprovacoes[i].estagio_atual) # {}
        /\ ApproveDocumentError(i, u, c) = "UnauthorizedApprover"
        /\ RejectDocumentError(i, u, c) = "UnauthorizedApprover"


(***************************************************************************)
(* C7: a successful approve that completes the current stage (the stage is *)
(* not require-all, or all its approvers, distinct users, have then        *)
(* approved) makes the instance approved with completedAt set when the     *)
(* stage is the last one,                                                  *)
(* and otherwise adds exactly 1 to currentStage and leaves it pending.  No *)
(* other step changes currentStage or approves an instance, so an approved *)
(* instance of an N-stage workflow is at stage N and its ledger holds      *)
(* approvals of the stages 1..N in that order.                             *)
(***************************************************************************)
StageDone(hist, i, k) ==
    LET stage == workflows[aprovacoes[i].workflow_id].configuracao.stages[k]
    IN  \/ ~stage.require_all /\ Voted(hist, i, k) # {}
        \/ stage.require_all /\ Range(stage.approvers) \subseteq Voted(hist, i, k)

C7_StageAdvance ==
    /\ [](\A i \in DOMAIN aprovacoes :
            /\ aprovacoes[i].estagio_atual >= 1
            /\ aprovacoes[i].status = "aprovado" =>
                 /\ aprovacoes[i].estagio_atual = NumStages(i)
                 /\ aprovacoes[i].data_conclusao # NULL
                 /\ \A k \in 1..NumStages(i) : StageDone(historico, i, k)
                 /\ LET ledger == Ledger(historico, i) IN
                    \A m, n \in DOMAIN ledger :
                        m < n => ledger[m].estagio <= ledger[n].estagio)
    /\ [][\A i \in DOMAIN aprovacoes :
            LET k == aprovacoes[i].estagio_atual
                moved == aprovacoes'[i].estagio_atual # k
                approved == /\ aprovacoes[i].status # "aprovado"
                            /\ aprovacoes'[i].status = "aprovado"
            IN  /\ (moved \/ approved) =>
                      /\ aprovacoes[i].status = "pendente"
                      /\ ApproveStep(i)
                      /\ StageDone(historico', i, k)
                /\ moved =>
                      /\ k < NumStages(i)
                      /\ aprovacoes'[i].estagio_atual = k + 1
                      /\ aprovacoes'[i].status = "pendente"
                      /\ aprovacoes'[i].data_conclusao = NULL
                /\ approved =>
                      /\ k = NumStages(i)
                      /\ aprovacoes'[i].data_conclusao # NULL
                /\ ( /\ ApproveStep(i)
                     /\ HasCurrentStage(i)
                     /\ Cardinality(ApproverSet(i)) = Len(CurrentStage(i).approvers)
                     /\ StageDone(historico', i, k) )
                   => IF k = NumStages(i) THEN approved ELSE moved]_vars

\* an instance of the two-stage workflow of the specification's example was
\* approved: one approval at stage 1, then both approvers of stage 2
C7_Witness ==
    \E i \in DOMAIN aprovacoes :
        /\ aprovacoes[i].status = "aprovado"
        /\ aprovacoes[i].data_conclusao # NULL
        /\ NumStages(i) = 2
        /\ aprovacoes[i].estagio_atual = 2
        /\ Len(Ledger(historico, i)) = 3


(***************************************************************************)
(* Vocabulary of the permission properties, stated on the rows.            *)
(***************************************************************************)
\* the rows granting user u the kind k on document d
GrantRows(d, u, k) ==
    { n \in DOMAIN permissoes :
         /\ permissoes[n].documento_id = d
         /\ permissoes[n].usuario_id = u
         /\ permissoes[n].tipo_permissao = k }

\* u holds a grant of kind k on d that has no expiry or whose expiry is not
\* before now
HoldsUnexpired(d, u, k) ==
    \E n \in GrantRows(d, u, k) :
        \/ permissoes[n].data_expiracao = NULL
        \/ permissoes[n].data_expiracao >= now

\* the kinds whose grant satisfies a check of kind k
Satisfying(k) ==
    IF k = "visualizar" THEN VALID_PERMISSION_TYPES ELSE {k}

Allowed(d, u, k) ==
    \/ DocOwner(d) = u
    \/ \E h \in Satisfying(k) : HoldsUnexpired(d, u, h)

(***************************************************************************)
(* C8: check(document, user, kind) raises nothing for a valid kind and     *)
(* returns true exactly when the user is the document's owner, or holds an *)
(* unexpired grant of that kind (no expiry, or an expiry that is not       *)
(* before now), or kind is view and the user holds an unexpired grant of   *)
(* edit, delete or share; a check changes no state.                        *)
(***************************************************************************)
C8_CheckExact ==
    /\ [](\A d \in Documentos, u \in Users, k \in VALID_PERMISSION_TYPES :
             /\ CheckPermissionError(k) = "none"
             /\ check_permission(d, u, k) <=> Allowed(d, u, k))
    /\ [][(\E d \in GrantDocArgs, u \in GranterArgs, k \in KindArgs :
                CheckPermission(d, u, k))
             => UNCHANGED <<permissoes, now, categorias>>]_vars

\* a user who is not the owner holds a view grant alone, which passes view
\* and no other kind, and the owner, who has no grant row, passes every kind
C8_Witness ==
    \E d \in Documentos, u \in Users :
        /\ DocOwner(d) # u
        /\ HoldsUnexpired(d, u, "visualizar")
        /\ check_permission(d, u, "visualizar")
        /\ \A k \in VALID_PERMISSION_TYPES \ {"visualizar"} :
              GrantRows(d, u, k) = {} /\ ~check_permission(d, u, k)
        /\ \A k \in VALID_PERMISSION_TYPES :
              GrantRows(d, DocOwner(d), k) = {} /\ check_permission(d, DocOwner(d), k)

(***************************************************************************)
(* C9: in every reachable grant state and at every time, for all documents *)
(* D and users U, check(D,U,edit) implies check(D,U,view), and likewise    *)
(* for delete and for share.                                               *)
(***************************************************************************)
C9_Implication ==
    \A d \in Documentos, u \in Users, k \in {"editar", "excluir", "compartilhar"} :
        check_permission(d, u, k) => check_permission(d, u, "visualizar")

\* a user who is not the owner passes share, and so view, with no view grant
C9_Witness ==
    \E d \in Documentos, u \in Users :
        /\ DocOwner(d) # u
        /\ check_permission(d, u, "compartilhar")
        /\ GrantRows(d, u, "visualizar") = {}
        /\ check_permission(d, u, "visualizar")

(***************************************************************************)
(* C10 as stated: a grant whose expires-at is less than or equal to the    *)
(* current time is never honored by check for a non-owner, neither         *)
(* directly nor through the implies-view rule, the instant at which        *)
(* expires-at equals now included.                                         *)
(***************************************************************************)
C10_ExpiredAtOrBeforeNow ==
    \A d \in Documentos, u \in Users, k \in VALID_PERMISSION_TYPES :
        (DocOwner(d) # u /\ check_permission(d, u, k)) =>
            \E h \in Satisfying(k) : \E n \in GrantRows(d, u, h) :
                \/ permissoes[n].data_expiracao = NULL
                \/ permissoes[n].data_expiracao > now

(***************************************************************************)
(* C10, amended: a grant whose expires-at is less than the current time is *)
(* never honored by check for a non-owner, neither directly nor through    *)
(* the implies-view rule, although its row still exists until it is swept  *)
(* or revoked; at the instant at which expires-at equals now the grant is  *)
(* still honored.                                                          *)
(***************************************************************************)
C10_ExpiredNotHonored ==
    /\ \A d \in Documentos, u \in Users, k \in VALID_PERMISSION_TYPES :
          (DocOwner(d) # u /\ check_permission(d, u, k)) =>
              \E h \in Satisfying(k) : \E n \in GrantRows(d, u, h) :
                  \/ permissoes[n].data_expiracao = NULL
                  \/ permissoes[n].data_expiracao >= now
    /\ \A n \in DOMAIN permissoes :
          permissoes[n].data_expiracao = now =>
              /\ check_permission(permissoes[n].documento_id,
                                  permissoes[n].usuario_id,
                                  permissoes[n].tipo_permissao)
              /\ check_permission(permissoes[n].documento_id,
                                  permissoes[n].usuario_id, "visualizar")

\* the row of an expired edit grant is still in the table and its holder
\* passes neither edit nor view
C10_Witness ==
    \E n \in DOMAIN permissoes :
        /\ permissoes[n].tipo_permissao = "editar"
        /\ permissoes[n].data_expiracao # NULL
        /\ permissoes[n].data_expiracao < now
        /\ DocOwner(permissoes[n].documento_id) # permissoes[n].usuario_id
        /\ ~check_permission(permissoes[n].documento_id, permissoes[n].usuario_id, "editar")
        /\ ~check_permission(permissoes[n].documento_id, permissoes[n].usuario_id, "visualizar")

(***************************************************************************)
(* share_document: one grant per kind of the list, each committed on its   *)
(* own, then the share notification.                                       *)
(***************************************************************************)
\* share_document: the expiration date, days counted in clock ticks (None is
\* the empty sequence)
ShareExpiration(expiration_days) ==
    IF expiration_days = <<>> THEN NULL ELSE now + expiration_days[1]

\* request p serves no call that is still running
Free(p) == calls[p].pc \in {"idle", "returned", "raised"}

\* share_document: the call is received and the expiration date computed
ShareDocument(p, documento_id, target_user_id, permission_types, shared_by_user_id, expiration_days) ==
    /\ Free(p)
    /\ calls' = [calls EXCEPT ![p] =
          [op |-> "share_document",
           pc |-> "grant",
           documento_id |-> documento_id,
           target_user_id |-> target_user_id,
           permission_types |-> permission_types,
           shared_by_user_id |-> shared_by_user_id,
           expiration_date |-> ShareExpiration(expiration_days),
           permissions |-> <<>>]]
    /\ UNCHANGED <<workflows, aprovacoes, historico, permissoes, now, categorias>>

ShareDocumentGrantRollsBack(p) ==
    /\ calls[p].op = "share_document"
    /\ calls[p].pc = "grant"
    /\ calls[p].permission_types # <<>>
    /\ LET c == calls[p]
           permission_type == Head(c.permission_types)
           error == GrantPermissionError(c.documento_id, c.target_user_id,
                                         permission_type, c.shared_by_user_id)
           granted == Upserted(c.documento_id, c.target_user_id, permission_type,
                               c.shared_by_user_id, c.expiration_date)
           Keep(r) == ~(/\ r.documento_id = c.documento_id
                        /\ r.usuario_id = c.target_user_id
                        /\ r.tipo_permissao \in Range(c.permissions))
       IN  IF error # "none"
           THEN /\ calls' = [calls EXCEPT ![p] =
                      [op |-> "share_document", pc |-> "raised", raised |-> error]]
                /\ permissoes' = SelectSeq(permissoes, Keep)
                /\ UNCHANGED <<workflows, aprovacoes, historico, now, categorias>>
           ELSE /\ Len(granted) <= MaxRows
                /\ permissoes' = granted
                /\ calls' = [calls EXCEPT
                      ![p].permission_types = Tail(c.permission_types),
                      ![p].permissions = Append(c.permissions, permission_type)]
                /\ UNCHANGED <<workflows, aprovacoes, historico, now, categorias>>

\* share_document: one turn of the loop, the grant of the next kind; the
\* exception of a grant leaves share_document with the list unreturned
ShareDocumentGrant(p) ==
    /\ calls[p].op = "share_document"
    /\ calls[p].pc = "grant"
    /\ calls[p].permission_types # <<>>
    /\ LET c == calls[p]
           permission_type == Head(c.permission_types)
           error == GrantPermissionError(c.documento_id, c.target_user_id,
                                         permission_type, c.shared_by_user_id)
           granted == Upserted(c.documento_id, c.target_user_id, permission_type,
                               c.shared_by_user_id, c.expiration_date)
       IN  IF error # "none"
           THEN /\ calls' = [calls EXCEPT ![p] =
                      [op |-> "share_document", pc |-> "raised", raised |-> error]]
                /\ UNCHANGED <<workflows, aprovacoes, historico, permissoes, now, categorias>>
           ELSE /\ Len(granted) <= MaxRows
                /\ permissoes' = granted
                /\ calls' = [calls EXCEPT
                      ![p].permission_types = Tail(c.permission_types),
                      ![p].permissions = Append(c.permissions, permission_type)]
                /\ UNCHANGED <<workflows, aprovacoes, historico, now, categorias>>

\* share_document: after the loop, the notification (best effort) and the
\* return of the list
ShareDocumentReturn(p) ==
    /\ calls[p].op = "share_document"
    /\ calls[p].pc = "grant"
    /\ calls[p].permission_types = <<>>
    /\ calls' = [calls EXCEPT ![p] =
          [op |-> "share_document", pc |-> "returned",
           permissions |-> calls[p].permissions]]
    /\ UNCHANGED <<workflows, aprovacoes, historico, permissoes, now, categorias>>

\* arguments of the calls of the sharing scenario
ShareKindArgs == {"visualizar", "compartilhar", "admin"}
ShareTargetArgs == {2}
ShareListArgs ==
    { <<"visualizar", "admin", "compartilhar">>,
      <<"compartilhar", "visualizar">>,
      <<"visualizar", "visualizar">> }
ShareDaysArgs == {<<>>, <<0>>}

(***************************************************************************)
(* Sharing: grants made directly and through share_document, revocations  *)
(* and the sweep of expired grants, one call at a time.                    *)
(***************************************************************************)
ShareNext ==
    \/ \E d \in GrantDocArgs, t \in ShareTargetArgs, l \in ShareListArgs,
          g \in GranterArgs, x \in ShareDaysArgs : ShareDocument(1, d, t, l, g, x)
    \/ ShareDocumentGrant(1)
    \/ ShareDocumentReturn(1)
    \/ \E d \in GrantDocArgs, t \in ShareTargetArgs, k \in ShareKindArgs,
          g \in GranterArgs, e \in ExpirationArgs :
          Free(1) /\ GrantPermission(d, t, k, g, e)
    \/ \E d \in GrantDocArgs, t \in ShareTargetArgs, k \in ShareKindArgs,
          g \in GranterArgs : Free(1) /\ RevokePermission(d, t, k, g)
    \/ \E d \in GrantDocArgs, t \in ShareTargetArgs, g \in GranterArgs :
          Free(1) /\ RevokeAllPermissions(d, t, g)
    \/ Free(1) /\ CleanupExpiredPermissions
    \/ Free(1) /\ Tick

ShareSpec == Init /\ [][ShareNext]_vars

(***************************************************************************)
(* C11: after any sequence of grant, shareDocument, revoke, revokeAll and  *)
(* sweepExpired calls there is at most one grant row per (document,        *)
(* grantee, kind); a grant on a key that already has a row creates no      *)
(* second row and overwrites that row's granter, granted-at timestamp and  *)
(* expiry with the values of the later call, an expiry being replaced by   *)
(* no expiry included.                                                     *)
(***************************************************************************)
\* the table after a grant on the key of row n: the same rows, row n carrying
\* the later call's granter, time and expiry
Regranted(n, g, e) ==
    /\ Len(permissoes') = Len(permissoes)
    /\ \A m \in DOMAIN permissoes :
          IF m = n
          THEN /\ permissoes'[m].documento_id = permissoes[m].documento_id
               /\ permissoes'[m].usuario_id = permissoes[m].usuario_id
               /\ permissoes'[m].tipo_permissao = permissoes[m].tipo_permissao
               /\ permissoes'[m].concedido_por = g
               /\ permissoes'[m].data_concessao = now
               /\ permissoes'[m].data_expiracao = e
          ELSE permissoes'[m] = permissoes[m]

C11_GrantUniqueness ==
    /\ [](\A d \in GrantDocArgs, t \in ShareTargetArgs, k \in ShareKindArgs :
            Cardinality(GrantRows(d, t, k)) <= 1)
    /\ [][\A d \in GrantDocArgs, t \in ShareTargetArgs, k \in ShareKindArgs,
             g \in GranterArgs, e \in ExpirationArgs :
            (/\ Free(1)
             /\ GrantRows(d, t, k) # {}
             /\ GrantPermissionError(d, t, k, g) = "none"
             /\ GrantPermission(d, t, k, g, e))
            => \E n \in GrantRows(d, t, k) : Regranted(n, g, e)]_vars
    /\ [][(/\ ShareDocumentGrant(1)
           /\ calls'[1].pc = "grant"
           /\ GrantRows(calls[1].documento_id, calls[1].target_user_id,
                        Head(calls[1].permission_types)) # {})
          => \E n \in GrantRows(calls[1].documento_id, calls[1].target_user_id,
                                Head(calls[1].permission_types)) :
                Regranted(n, calls[1].shared_by_user_id, calls[1].expiration_date)]_vars

\* a row granted by the owner with an expiry, granted again later by the
\* holder of a share grant without expiry
C11_Witness ==
    /\ now > 0
    /\ Len(permissoes) = 2
    /\ \E n \in DOMAIN permissoes :
          /\ permissoes[n].tipo_permissao = "visualizar"
          /\ permissoes[n].concedido_por = 2
          /\ permissoes[n].data_concessao = now
          /\ permissoes[n].data_expiracao = NULL
    /\ \E n \in DOMAIN permissoes :
          /\ permissoes[n].tipo_permissao = "compartilhar"
          /\ permissoes[n].concedido_por = 1
          /\ permissoes[n].data_concessao = 0

(***************************************************************************)
(* C12: grant, revoke and revokeAll called by a user who is neither the    *)
(* document's owner nor the holder of an unexpired share grant on the      *)
(* document fail with PermissionDenied and leave every grant row           *)
(* unchanged; a caller whose only share grant has expired is treated as    *)
(* not holding share.  The kind of the grant is a valid one: the kind is   *)
(* validated before the granter.                                           *)
(***************************************************************************)
MayManage(d, u) == DocOwner(d) = u \/ HoldsUnexpired(d, u, "compartilhar")

C12_PermissionDenied ==
    /\ [](\A d \in GrantDocArgs, g \in GranterArgs :
            ~MayManage(d, g) =>
               /\ \A t \in ShareTargetArgs, k \in ShareKindArgs \cap VALID_PERMISSION_TYPES :
                     GrantPermissionError(d, t, k, g) = "PermissionDenied"
               /\ RevokePermissionError(d, g) = "PermissionDenied"
               /\ RevokeAllPermissionsError(d, g) = "PermissionDenied")
    /\ [][\A d \in GrantDocArgs, g \in GranterArgs, t \in ShareTargetArgs :
            (/\ ~MayManage(d, g)
             /\ \/ \E k \in ShareKindArgs, e \in ExpirationArgs :
                      GrantPermission(d, t, k, g, e)
                \/ \E k \in ShareKindArgs : RevokePermission(d, t, k, g)
                \/ RevokeAllPermissions(d, t, g))
            => UNCHANGED permissoes]_vars

\* user 2 holds one share grant, expired, and may neither grant nor revoke
C12_Witness ==
    /\ Len(permissoes) = 2
    /\ \E n \in GrantRows(1, 2, "compartilhar") :
          /\ permissoes[n].data_expiracao # NULL
          /\ permissoes[n].data_expiracao < now
    /\ DocOwner(1) # 2
    /\ GrantPermissionError(1, 2, "visualizar", 2) = "PermissionDenied"
    /\ RevokePermissionError(1, 2) = "PermissionDenied"
    /\ RevokeAllPermissionsError(1, 2) = "PermissionDenied"

(***************************************************************************)
(* Requests served at the same time.  Each request has its own session: it *)
(* reads what is committed, keeps what it read, and its writes reach the   *)
(* tables at its commit.  A step is what a request does between two points *)
(* where another request's commit can fall.                                *)
(***************************************************************************)
\* submit_for_approval: the checks, the last of them the query for a pending
\* instance of the document
SubmitCheck(p, documento_id, workflow_id, submetido_por) ==
    /\ Free(p)
    /\ IF SubmitForApprovalError(documento_id, workflow_id, submetido_por) # "none"
       THEN Raises
       ELSE /\ calls' = [calls EXCEPT ![p] =
                  [op |-> "submit_for_approval",
                   pc |-> "insert",
                   documento_id |-> documento_id,
                   workflow_id |-> workflow_id,
                   submetido_por |-> submetido_por]]
            /\ UNCHANGED <<workflows, aprovacoes, historico, permissoes, now, categorias>>

\* submit_for_approval: the insert of the instance and the commit; no
\* constraint of aprovacao_documentos refuses the row
SubmitInsert(p) ==
    /\ calls[p].op = "submit_for_approval"
    /\ calls[p].pc = "insert"
    /\ Len(aprovacoes) < MaxApprovals
    /\ aprovacoes' = Append(aprovacoes,
          [documento_id |-> calls[p].documento_id,
           workflow_id |-> calls[p].workflow_id,
           submetido_por |-> calls[p].submetido_por,
           estagio_atual |-> 1,
           status |-> "pendente",
           data_conclusao |-> NULL])
    /\ calls' = [calls EXCEPT ![p] = Idle]
    /\ UNCHANGED <<workflows, historico, permissoes, now, categorias>>

\* approve_document: the instance is loaded into the session and validated
ApproveRead(p, aprovacao_id, aprovador_id) ==
    /\ Free(p)
    /\ IF ApproveDocumentError(aprovacao_id, aprovador_id, <<>>) # "none"
       THEN Raises
       ELSE /\ calls' = [calls EXCEPT ![p] =
                  [op |-> "approve_document",
                   pc |-> "check_stage",
                   aprovacao_id |-> aprovacao_id,
                   aprovador_id |-> aprovador_id,
                   aprovacao |-> aprovacoes[aprovacao_id]]]
            /\ UNCHANGED <<workflows, aprovacoes, historico, permissoes, now, categorias>>

\* approve_document: _is_stage_complete on the loaded instance, the ledger
\* being the committed rows and the row this session has added
ApproveCheckStage(p) ==
    /\ calls[p].op = "approve_document"
    /\ calls[p].pc = "check_stage"
    /\ LET c == calls[p]
           hist == Append(historico,
                      HistoricoRow(c.aprovacao_id, c.aprovacao.estagio_atual,
                                   c.aprovador_id, "aprovado"))
       IN  calls' = [calls EXCEPT ![p] =
              [op |-> "approve_document",
               pc |-> "commit",
               aprovacao_id |-> c.aprovacao_id,
               aprovador_id |-> c.aprovador_id,
               aprovacao |-> c.aprovacao,
               complete |-> IsStageComplete(c.aprovacao_id, c.aprovacao, "aprovado", hist)]]
    /\ UNCHANGED <<workflows, aprovacoes, historico, permissoes, now, categorias>>

FlushedIncrement(row, aprovacao) ==
    IF aprovacao.estagio_atual < Len(StagesOf(aprovacao))
    THEN [row EXCEPT !.estagio_atual = @ + 1]
    ELSE [row EXCEPT !.status = "aprovado", !.data_conclusao = now]

\* approve_document: the row of the instance after the flush of the attributes
\* that the session changed on the instance it loaded
Flushed(row, aprovacao) ==
    IF aprovacao.estagio_atual < Len(StagesOf(aprovacao))
    THEN [row EXCEPT !.estagio_atual = aprovacao.estagio_atual + 1]
    ELSE [row EXCEPT !.status = "aprovado", !.data_conclusao = now]

\* approve_document: the commit of the ledger row and of the instance
ApproveCommit(p) ==
    /\ calls[p].op = "approve_document"
    /\ calls[p].pc = "commit"
    /\ Len(historico) < MaxHist
    /\ LET c == calls[p] IN
       /\ historico' = Append(historico,
             HistoricoRow(c.aprovacao_id, c.aprovacao.estagio_atual,
                          c.aprovador_id, "aprovado"))
       /\ aprovacoes' =
             IF c.complete
             THEN [aprovacoes EXCEPT
                      ![c.aprovacao_id] = Flushed(aprovacoes[c.aprovacao_id], c.aprovacao)]
             ELSE aprovacoes
    /\ calls' = [calls EXCEPT ![p] = Idle]
    /\ UNCHANGED <<workflows, permissoes, now, categorias>>

\* arguments of the concurrent calls
ConcConfigArgs == { [stages |-> <<S123any, S1>>], [stages |-> <<S1, S23all>>] }
ConcDocArgs == {1}
ConcApproverArgs == {1, 2, 3}

(***************************************************************************)
(* The workflow engine serving two requests at the same time.              *)
(***************************************************************************)
ConcNext ==
    \/ \E c \in ConcConfigArgs : CreateWorkflow("wf", c)
    \/ \E p \in Procs, d \in ConcDocArgs, w \in WorkflowArgs, u \in SubmitterArgs :
          SubmitCheck(p, d, w, u)
    \/ \E p \in Procs : SubmitInsert(p)
    \/ \E p \in Procs, i \in ApprovalArgs, u \in ConcApproverArgs : ApproveRead(p, i, u)
    \/ \E p \in Procs : ApproveCheckStage(p)
    \/ \E p \in Procs : ApproveCommit(p)

ConcSpec == Init /\ [][ConcNext]_vars

(***************************************************************************)
(* C13: when two or more submitForApproval calls for the same document run *)
(* concurrently (their check for an existing pending instance and their    *)
(* insert interleave), no reachable state contains two pending approval    *)
(* instances for that document.                                            *)
(***************************************************************************)
C13_SinglePendingConcurrent ==
    \A d \in Documentos : Cardinality(PendingOf(d)) <= 1

(***************************************************************************)
(* C14: when two approve calls on the same pending instance run            *)
(* concurrently, each reading the current stage, the workflow definition   *)
(* and the ledger before either writes, the instance advances by at most   *)
(* one stage for one completed stage: the two calls never both complete    *)
(* the same stage and move the instance two stages forward or finalize it  *)
(* past a stage that no one approved.  On the tables: the current stage is *)
(* a stage of the workflow, every stage before it is completed in the      *)
(* ledger, and so is every stage of an approved instance.                  *)
(***************************************************************************)
C14_NoDoubleAdvance ==
    \A i \in DOMAIN aprovacoes :
        /\ aprovacoes[i].estagio_atual \in 1..NumStages(i)
        /\ \A k \in 1..(aprovacoes[i].estagio_atual - 1) : StageDone(historico, i, k)
        /\ aprovacoes[i].status = "aprovado" =>
              \A k \in 1..NumStages(i) : StageDone(historico, i, k)

\* two approvals recorded at stage 1 of a stage that one approval completes:
\* the second call loaded the instance before the first one committed, and
\* the instance is at stage 2
C14_Witness ==
    \E i \in DOMAIN aprovacoes :
        /\ NumStages(i) = 2
        /\ ~workflows[aprovacoes[i].workflow_id].configuracao.stages[1].require_all
        /\ Cardinality(Voted(historico, i, 1)) = 2
        /\ aprovacoes[i].estagio_atual = 2
        /\ aprovacoes[i].status = "pendente"
        /\ \A p \in Procs : calls[p] = Idle

(***************************************************************************)
(* grant_permission served to two requests at the same time.  No row is    *)
(* deleted here, so a row keeps its place in the table.                    *)
(***************************************************************************)
UniqueViolationNever(documento_id, usuario_id, tipo_permissao) == FALSE

\* uq_documento_usuario_permissao: the table holds a row of the key, so the
\* insert of another one is refused
UniqueViolation(documento_id, usuario_id, tipo_permissao) ==
    FirstPermission(documento_id, usuario_id, tipo_permissao) # 0

\* grant_permission: the checks and the query for the row of the key; a row
\* found is updated in the session at once
GrantLookup(p, documento_id, target_user_id, permission_type, granted_by_user_id, expiration_date) ==
    /\ Free(p)
    /\ IF GrantPermissionError(documento_id, target_user_id, permission_type,
                               granted_by_user_id) # "none"
       THEN Raises
       ELSE /\ calls' = [calls EXCEPT ![p] =
                  [op |-> "grant_permission",
                   pc |-> "commit",
                   documento_id |-> documento_id,
                   target_user_id |-> target_user_id,
                   permission_type |-> permission_type,
                   granted_by_user_id |-> granted_by_user_id,
                   expiration_date |-> expiration_date,
                   existing_permission |->
                       FirstPermission(documento_id, target_user_id, permission_type),
                   data_concessao |-> now]]
            /\ UNCHANGED <<workflows, aprovacoes, historico, permissoes, now, categorias>>

\* grant_permission: the commit of the updated row, or the insert of the new
\* one, which the unique constraint refuses with an IntegrityError
GrantCommit(p) ==
    /\ calls[p].op = "grant_permission"
    /\ calls[p].pc = "commit"
    /\ LET c == calls[p] IN
       IF c.existing_permission # 0
       THEN permissoes' = [permissoes EXCEPT
               ![c.existing_permission].concedido_por = c.granted_by_user_id,
               ![c.existing_permission].data_concessao = c.data_concessao,
               ![c.existing_permission].data_expiracao = c.expiration_date]
       ELSE IF UniqueViolation(c.documento_id, c.target_user_id, c.permission_type)
       THEN permissoes' = permissoes
       ELSE /\ Len(permissoes) < MaxRows
            /\ permissoes' = Append(permissoes,
                  [documento_id |-> c.documento_id,
                   usuario_id |-> c.target_user_id,
                   tipo_permissao |-> c.permission_type,
                   concedido_por |-> c.granted_by_user_id,
                   data_concessao |-> now,
                   data_expiracao |-> c.expiration_date])
    /\ calls' = [calls EXCEPT ![p] = Idle]
    /\ UNCHANGED <<workflows, aprovacoes, historico, now, categorias>>

\* the kinds granted by the concurrent calls
ConcKindArgs == {"visualizar", "compartilhar"}

GrantConcNext ==
    \/ \E p \in Procs, d \in GrantDocArgs, t \in ShareTargetArgs, k \in ConcKindArgs,
          g \in GranterArgs, e \in ExpirationArgs : GrantLookup(p, d, t, k, g, e)
    \/ \E p \in Procs : GrantCommit(p)
    \/ Tick

GrantConcSpec == Init /\ [][GrantConcNext]_vars

(***************************************************************************)
(* C15: when two or more grant calls for the same (document, grantee,      *)
(* kind) run concurrently (their lookup of an existing row and their       *)
(* insert interleave), no reachable state contains two grant rows for that *)
(* key.                                                                    *)
(***************************************************************************)
C15_GrantUniquenessConcurrent ==
    \A d \in GrantDocArgs, t \in ShareTargetArgs, k \in ConcKindArgs :
        Cardinality(GrantRows(d, t, k)) < 2

\* a request found no row of the key and is about to insert one, while the
\* other request's row of that key is already committed
C15_Witness ==
    \E p \in Procs :
        /\ calls[p].op = "grant_permission"
        /\ calls[p].pc = "commit"
        /\ calls[p].existing_permission = 0
        /\ GrantRows(calls[p].documento_id, calls[p].target_user_id,
                     calls[p].permission_type) # {}

(***************************************************************************)
(* The collaborators.  The notification service and the audit service are  *)
(* called after the commit; a call to one of them does its work or raises. *)
(***************************************************************************)
\* what a call to a collaborator raises ("none" when it raises nothing)
Failures == {"none", "ImportError", "ConnectionError"}

\* the subclasses of Exception among them
Exception == {"ImportError", "AttributeError", "ConnectionError"}

ExceptImportError(failure) ==
    IF failure \in {"ImportError", "AttributeError"} THEN "none" ELSE failure

\* try: ... except Exception as e: the failure is logged and goes no further
ExceptException(failure) ==
    IF failure \in Exception THEN "none" ELSE failure

\* submit_for_approval after its commit: _notify_stage_approvers
SubmitForApprovalLateError(notification) == ExceptException(notification)

\* approve_document after its commit: the notification, then the audit entry
ApproveDocumentLateError(notification, audit) ==
    IF ExceptException(notification) # "none" THEN ExceptException(notification)
    ELSE ExceptException(audit)

\* reject_document after its commit: the notification, then the audit entry
RejectDocumentLateError(notification, audit) ==
    IF ExceptException(notification) # "none" THEN ExceptException(notification)
    ELSE ExceptException(audit)

\* grant_permission after its commit: the audit entry
GrantPermissionLateError(audit) == ExceptException(audit)

\* revoke_permission after its commit: the audit entry
RevokePermissionLateError(audit) == ExceptException(audit)

\* what the caller gets: the return, or the exception raised; what the
\* collaborators did during the call is kept with it (audited: the call
\* reached a call of the audit service; audit: what that call raised)
Result(op, error, notification, audit, audited) ==
    [op |-> op,
     pc |-> IF error = "none" THEN "returned" ELSE "raised",
     raised |-> error,
     notification |-> notification,
     audit |-> IF audited THEN audit ELSE "none",
     audited |-> audited]

\* a call refused by its checks: nothing is written, no collaborator is called
Refused(p, op, error) ==
    /\ calls' = [calls EXCEPT ![p] = Result(op, error, "none", "none", FALSE)]
    /\ UNCHANGED <<workflows, aprovacoes, historico, permissoes, now, categorias>>

\* submit_for_approval with its collaborator: the notification; the method
\* makes no call of the audit service
SubmitForApprovalCall(p, documento_id, workflow_id, submetido_por, notification) ==
    /\ Free(p)
    /\ IF SubmitForApprovalError(documento_id, workflow_id, submetido_por) # "none"
       THEN Refused(p, "submit_for_approval",
                    SubmitForApprovalError(documento_id, workflow_id, submetido_por))
       ELSE /\ SubmitForApprovalCommitted(documento_id, workflow_id, submetido_por)
            /\ calls' = [calls EXCEPT ![p] =
                  Result("submit_for_approval", SubmitForApprovalLateError(notification),
                         notification, "none", FALSE)]

\* approve_document with its collaborators
ApproveDocumentCall(p, aprovacao_id, aprovador_id, comentario, notification, audit) ==
    /\ Free(p)
    /\ IF ApproveDocumentError(aprovacao_id, aprovador_id, comentario) # "none"
       THEN Refused(p, "approve_document",
                    ApproveDocumentError(aprovacao_id, aprovador_id, comentario))
       ELSE /\ ApproveDocumentCommitted(aprovacao_id, aprovador_id, comentario)
            /\ calls' = [calls EXCEPT ![p] =
                  Result("approve_document", ApproveDocumentLateError(notification, audit),
                         notification, audit, TRUE)]

\* reject_document with its collaborators
RejectDocumentCall(p, aprovacao_id, aprovador_id, comentario, notification, audit) ==
    /\ Free(p)
    /\ IF RejectDocumentError(aprovacao_id, aprovador_id, comentario) # "none"
       THEN Refused(p, "reject_document",
                    RejectDocumentError(aprovacao_id, aprovador_id, comentario))
       ELSE /\ RejectDocumentCommitted(aprovacao_id, aprovador_id, comentario)
            /\ calls' = [calls EXCEPT ![p] =
                  Result("reject_document", RejectDocumentLateError(notification, audit),
                         notification, audit, TRUE)]

\* grant_permission with its collaborator: the branch that updates an
\* existing row returns before the audit entry, the insert is followed by it
GrantPermissionCall(p, documento_id, target_user_id, permission_type, granted_by_user_id, expiration_date, audit) ==
    /\ Free(p)
    /\ IF GrantPermissionError(documento_id, target_user_id, permission_type,
                               granted_by_user_id) # "none"
       THEN Refused(p, "grant_permission",
                    GrantPermissionError(documento_id, target_user_id, permission_type,
                                         granted_by_user_id))
       ELSE /\ GrantPermissionCommitted(documento_id, target_user_id, permission_type,
                                        granted_by_user_id, expiration_date)
            /\ calls' = [calls EXCEPT ![p] =
                  Result("grant_permission", GrantPermissionLateError(audit), "none", audit,
                         FirstPermission(documento_id, target_user_id, permission_type) = 0)]

\* revoke_permission with its collaborator: the audit entry is written only
\* when a row was deleted
RevokePermissionCall(p, documento_id, target_user_id, permission_type, revoked_by_user_id, audit) ==
    /\ Free(p)
    /\ IF RevokePermissionError(documento_id, revoked_by_user_id) # "none"
       THEN Refused(p, "revoke_permission",
                    RevokePermissionError(documento_id, revoked_by_user_id))
       ELSE /\ RevokePermissionCommitted(documento_id, target_user_id, permission_type,
                                         revoked_by_user_id)
            /\ calls' = [calls EXCEPT ![p] =
                  Result("revoke_permission", RevokePermissionLateError(audit), "none", audit,
                         FirstPermission(documento_id, target_user_id, permission_type) # 0)]

\* arguments of the calls made with failing collaborators
CollabConfigArgs == { [stages |-> <<S1, S23all>>] }
CollabApproverArgs == {1, 2}
CollabCommentArgs == {<<>>, <<WS, "k">>}
CollabKindArgs == {"visualizar"}
CollabGranterArgs == {1, 2}

(***************************************************************************)
(* The engine and the permission store with collaborators that may fail,   *)
(* calls made one at a time.                                               *)
(***************************************************************************)
CollabNext ==
    \/ \E c \in CollabConfigArgs : CreateWorkflow("wf", c)
    \/ \E d \in ConcDocArgs, w \in WorkflowArgs, u \in SubmitterArgs, nf \in Failures :
          SubmitForApprovalCall(1, d, w, u, nf)
    \/ \E i \in ApprovalArgs, u \in CollabApproverArgs, c \in CollabCommentArgs,
          nf \in Failures, af \in Failures : ApproveDocumentCall(1, i, u, c, nf, af)
    \/ \E i \in ApprovalArgs, u \in CollabApproverArgs, c \in CollabCommentArgs,
          nf \in Failures, af \in Failures : RejectDocumentCall(1, i, u, c, nf, af)
    \/ \E d \in GrantDocArgs, t \in ShareTargetArgs, k \in CollabKindArgs,
          g \in CollabGranterArgs, af \in Failures :
          GrantPermissionCall(1, d, t, k, g, NULL, af)
    \/ \E d \in GrantDocArgs, t \in ShareTargetArgs, k \in CollabKindArgs,
          g \in CollabGranterArgs, af \in Failures :
          RevokePermissionCall(1, d, t, k, g, af)

CollabSpec == Init /\ [][CollabNext]_vars

(***************************************************************************)
(* C16: if the notification collaborator or the audit collaborator fails   *)
(* during submitForApproval, approve, reject, grant or revoke, the         *)
(* operation still returns successfully to its caller and the state change *)
(* it persisted (new instance, ledger entry, stage or status change, grant *)
(* row created or deleted) remains in place.                               *)
(***************************************************************************)
\* the call of this step, by what its caller got (the one step that is not
\* such a call is the creation of the workflow)
Served(op, pc) == workflows' = workflows /\ calls'[1].op = op /\ calls'[1].pc = pc

C16_BestEffortCollaborators ==
    [][/\ (\E op \in {"submit_for_approval", "approve_document", "reject_document",
                        "grant_permission", "revoke_permission"} : Served(op, "raised")) =>
            /\ calls'[1].raised \notin Exception
            /\ calls'[1].notification = "none"
            /\ calls'[1].audit = "none"
            /\ UNCHANGED <<workflows, aprovacoes, historico, permissoes>>
       /\ Served("submit_for_approval", "returned") =>
            /\ Len(aprovacoes') = Len(aprovacoes) + 1
            /\ aprovacoes'[Len(aprovacoes')].status = "pendente"
            /\ SubmitForApprovalError(aprovacoes'[Len(aprovacoes')].documento_id,
                                      aprovacoes'[Len(aprovacoes')].workflow_id,
                                      aprovacoes'[Len(aprovacoes')].submetido_por) = "none"
       /\ Served("approve_document", "returned") =>
            /\ Appended
            /\ NewEntry.acao = "aprovado"
            /\ ApproveDocumentError(NewEntry.aprovacao_id, NewEntry.aprovador_id, <<>>) = "none"
            /\ NewEntry.estagio = aprovacoes[NewEntry.aprovacao_id].estagio_atual
            /\ StageDone(historico', NewEntry.aprovacao_id, NewEntry.estagio)
                  => StageCompleted(NewEntry.aprovacao_id, NewEntry.estagio)
       /\ Served("reject_document", "returned") =>
            /\ Appended
            /\ NewEntry.acao = "rejeitado"
            /\ NewEntry.estagio = aprovacoes[NewEntry.aprovacao_id].estagio_atual
            /\ aprovacoes[NewEntry.aprovacao_id].status = "pendente"
            /\ aprovacoes'[NewEntry.aprovacao_id].status = "rejeitado"
       /\ Served("grant_permission", "returned") =>
            /\ permissoes' # <<>>
            /\ Len(permissoes') >= Len(permissoes)
            /\ \E n \in DOMAIN permissoes' :
                  /\ permissoes'[n].data_concessao = now
                  /\ GrantPermissionError(permissoes'[n].documento_id,
                        permissoes'[n].usuario_id, permissoes'[n].tipo_permissao,
                        permissoes'[n].concedido_por) = "none"
       /\ Served("revoke_permission", "returned") =>
            /\ Len(permissoes') <= Len(permissoes)
            /\ permissoes # <<>> => Len(permissoes') = Len(permissoes) - 1
      ]_vars

\* an approval returned although the notification and the audit both failed,
\* and the instance is at the stage the approval moved it to
C16_Witness ==
    /\ calls[1].op = "approve_document"
    /\ calls[1].pc = "returned"
    /\ calls[1].notification = "ConnectionError"
    /\ calls[1].audit = "ConnectionError"
    /\ Len(historico) = 1
    /\ historico[1].acao = "aprovado"
    /\ aprovacoes[1].estagio_atual = 2

(***************************************************************************)
(* The history of an approval as get_approval_history returns it.          *)
(***************************************************************************)
\* HistoricoAprovacaoRepository.get_by_approval: the lists that the query
\* with order_by(data_acao) can return, rows of equal data_acao coming in
\* any order
get_by_approval_ordered(hist, aprovacao_id) ==
    LET rows == get_by_approval(hist, aprovacao_id)
        n == Len(rows)
    IN  { [k \in 1..n |-> rows[f[k]]] :
            f \in { g \in Permutations(1..n) :
                      \A a \in 1..n, b \in 1..n :
                          a < b => rows[g[a]].data_acao <= rows[g[b]].data_acao } }

\* WorkflowService.get_approval_history
GetApprovalHistory(p, aprovacao_id) ==
    /\ Free(p)
    /\ \E history \in get_by_approval_ordered(historico, aprovacao_id) :
          calls' = [calls EXCEPT ![p] =
             [op |-> "get_approval_history",
              pc |-> "returned",
              aprovacao_id |-> aprovacao_id,
              history |-> history]]
    /\ UNCHANGED <<workflows, aprovacoes, historico, permissoes, now, categorias>>

\* arguments of the calls of the ledger scenario
LedgerConfigArgs == { [stages |-> <<S1, S23all>>] }
LedgerApproverArgs == {1, 2, 3}
LedgerCommentArgs == {<<>>, <<WS, "k">>}

(***************************************************************************)
(* The engine with its history query, calls made one at a time while the   *)
(* clock advances.                                                         *)
(***************************************************************************)
LedgerNext ==
    \/ \E c \in LedgerConfigArgs : CreateWorkflow("wf", c)
    \/ \E d \in ConcDocArgs, w \in WorkflowArgs, u \in SubmitterArgs :
          SubmitForApproval(d, w, u)
    \/ \E i \in ApprovalArgs, u \in LedgerApproverArgs, c \in LedgerCommentArgs :
          ApproveDocument(i, u, c)
    \/ \E i \in ApprovalArgs, u \in LedgerApproverArgs, c \in LedgerCommentArgs :
          RejectDocument(i, u, c)
    \/ \E i \in ApprovalArgs : GetApprovalHistory(1, i)
    \/ Tick

LedgerSpec == Init /\ [][LedgerNext]_vars

(***************************************************************************)
(* C17: the ledger of an approval instance is append-only: each successful *)
(* approve or reject call appends exactly one entry carrying the actor,    *)
(* the action and the stage number the instance had when the call was      *)
(* made; failed calls append nothing; existing entries are never changed   *)
(* or removed; getHistory returns the entries in the order the actions     *)
(* were taken.                                                             *)
(***************************************************************************)
\* existing entries stay, and at most one entry is appended
LedgerKept ==
    /\ Len(historico') \in {Len(historico), Len(historico) + 1}
    /\ \A n \in DOMAIN historico : historico'[n] = historico[n]

\* the entry appended is that of a call on a pending instance by an approver
\* of its current stage, and carries the stage the instance had
EntryOfCall ==
    Appended =>
       /\ NewEntry.aprovacao_id \in DOMAIN aprovacoes
       /\ aprovacoes[NewEntry.aprovacao_id].status = "pendente"
       /\ NewEntry.estagio = aprovacoes[NewEntry.aprovacao_id].estagio_atual
       /\ NewEntry.aprovador_id \in ApproverSet(NewEntry.aprovacao_id)
       /\ NewEntry.acao \in {"aprovado", "rejeitado"}
       /\ NewEntry.acao = "rejeitado" <=>
             aprovacoes'[NewEntry.aprovacao_id].status = "rejeitado"

\* an instance changes only with an entry appended to its ledger
NoneWithoutEntry ==
    \A i \in DOMAIN aprovacoes :
        aprovacoes'[i] # aprovacoes[i] => Appended /\ NewEntry.aprovacao_id = i

\* the history returned in this step is the ledger in the order of the actions
HistoryInOrder ==
    (calls' # calls /\ calls'[1].op = "get_approval_history") =>
        calls'[1].history = Ledger(historico, calls'[1].aprovacao_id)

C17_LedgerAppendOnly ==
    [][LedgerKept /\ EntryOfCall /\ NoneWithoutEntry /\ HistoryInOrder]_vars

\* the same without the order of the history returned
C17_AppendOnlyPart ==
    [][LedgerKept /\ EntryOfCall /\ NoneWithoutEntry]_vars

(***************************************************************************)
(* C18: an approve call with an empty comment on a pending instance by an  *)
(* authorized approver fails with a validation error, appends no ledger    *)
(* entry and leaves the instance's stage and status unchanged; the same    *)
(* holds for reject with an empty or whitespace-only comment.              *)
(***************************************************************************)
C18_EmptyCommentRefused ==
    /\ [](\A i \in DOMAIN aprovacoes, u \in Users :
            (IsPending(i) /\ u \in ApproverSet(i)) =>
               /\ ApproveDocumentError(i, u, <<>>) = "CommentMandatory"
               /\ RejectDocumentError(i, u, <<>>) = "CommentMandatory"
               /\ RejectDocumentError(i, u, <<WS>>) = "CommentMandatory")
    /\ [][\A i \in ApprovalArgs, u \in Users :
            (/\ IsPending(i)
             /\ u \in ApproverSet(i)
             /\ \/ ApproveDocument(i, u, <<>>)
                \/ RejectDocument(i, u, <<>>)
                \/ RejectDocument(i, u, <<WS>>))
            => UNCHANGED <<historico, aprovacoes>>]_vars

\* the part of it about reject
C18_RejectPart ==
    \A i \in DOMAIN aprovacoes, u \in Users :
        (IsPending(i) /\ u \in ApproverSet(i)) =>
           /\ RejectDocumentError(i, u, <<>>) = "CommentMandatory"
           /\ RejectDocumentError(i, u, <<WS>>) = "CommentMandatory"

(***************************************************************************)
(* C19 as stated: when shareDocument is called with several kinds and the  *)
(* grant for the i-th kind fails, the grants made for kinds 1..i-1 stay    *)
(* persisted (no rollback), no grant is made for kinds i..n, and the       *)
(* caller receives the list of the grants that succeeded before the        *)
(* failure.                                                                *)
(***************************************************************************)
\* this step is the turn of the loop of share_document for the next kind
ShareTurn ==
    /\ calls[1].op = "share_document"
    /\ calls[1].pc = "grant"
    /\ calls[1].permission_types # <<>>
    /\ calls' # calls

\* the error of the grant of the next kind
ShareTurnError ==
    GrantPermissionError(calls[1].documento_id, calls[1].target_user_id,
                         Head(calls[1].permission_types), calls[1].shared_by_user_id)

\* the kinds granted so far by the call in progress have their row
SharedSoFar ==
    (calls[1].op = "share_document" /\ calls[1].pc = "grant") =>
        \A k \in Range(calls[1].permissions) :
            \E n \in GrantRows(calls[1].documento_id, calls[1].target_user_id, k) :
                /\ permissoes[n].concedido_por = calls[1].shared_by_user_id
                /\ permissoes[n].data_expiracao = calls[1].expiration_date

C19_PartialListReturned ==
    /\ []SharedSoFar
    /\ [][(ShareTurn /\ ShareTurnError # "none") =>
            /\ permissoes' = permissoes
            /\ calls'[1].pc = "returned"
            /\ calls'[1].permissions = calls[1].permissions]_vars

(***************************************************************************)
(* C19, amended: when the grant for the i-th kind fails, the grants made   *)
(* for kinds 1..i-1 stay persisted (no rollback), no grant is made for     *)
(* kinds i..n, and the call ends with the error of the i-th grant raised   *)
(* to the caller, who receives no list.                                    *)
(***************************************************************************)
C19_PartialFailureRaises ==
    /\ []SharedSoFar
    /\ [][(ShareTurn /\ ShareTurnError # "none") =>
            /\ permissoes' = permissoes
            /\ calls'[1] = [op |-> "share_document", pc |-> "raised",
                            raised |-> ShareTurnError]]_vars

\* the second kind of three was refused: the grant of the first is in the
\* table, the third was not made, and the call raised
C19_Witness ==
    /\ calls[1].op = "share_document"
    /\ calls[1].pc = "raised"
    /\ calls[1].raised = "InvalidPermissionType"
    /\ GrantRows(1, 2, "visualizar") # {}
    /\ GrantRows(1, 2, "compartilhar") = {}

(***************************************************************************)
(* The engine with its workflow definition edited while instances are in   *)
(* flight, calls made one at a time.                                       *)
(***************************************************************************)
EditConfigArgs ==
    { [stages |-> <<S1, S23all>>],
      [stages |-> <<S123any, S1>>],
      [stages |-> <<S23all>>],
      [stages |-> <<S123all>>] }
EditApproverArgs == {1, 2, 3}
EditCommentArgs == {<<>>, <<WS, "k">>}

EditNext ==
    \/ \E c \in EditConfigArgs : CreateWorkflow("wf", c)
    \/ \E w \in WorkflowArgs, c \in EditConfigArgs : UpdateWorkflow(w, <<c>>, <<>>)
    \/ \E d \in ConcDocArgs, w \in WorkflowArgs, u \in SubmitterArgs :
          SubmitForApproval(d, w, u)
    \/ \E i \in ApprovalArgs, u \in EditApproverArgs, c \in EditCommentArgs :
          ApproveDocument(i, u, c)
    \/ \E i \in ApprovalArgs, u \in EditApproverArgs, c \in EditCommentArgs :
          RejectDocument(i, u, c)

EditSpec == Init /\ [][EditNext]_vars

(***************************************************************************)
(* C20: authorization of approve and reject uses the workflow definition   *)
(* as it is at the time of the call, not as it was at submission: after    *)
(* updateWorkflow changes the approver set of an in-flight instance's      *)
(* current stage, a user removed from the set receives                     *)
(* UnauthorizedApprover and a user added to it is accepted, while ledger   *)
(* entries recorded before the edit stay unchanged.                        *)
(***************************************************************************)
\* the approver set that configuration c gives to stage k
ApproversIn(c, k) ==
    IF k \in 1..Len(c.stages) THEN Range(c.stages[k].approvers) ELSE {}

C20_LiveDefinition ==
    /\ [](\A i \in DOMAIN aprovacoes, u \in Users :
            IsPending(i) =>
               LET live == ApproversIn(workflows[aprovacoes[i].workflow_id].configuracao,
                                       aprovacoes[i].estagio_atual)
               IN  /\ u \in live =>
                        /\ ApproveDocumentError(i, u, <<>>) = "none"
                        /\ RejectDocumentError(i, u, <<WS, "k">>) = "none"
                   /\ u \notin live =>
                        /\ ApproveDocumentError(i, u, <<>>) = "UnauthorizedApprover"
                        /\ RejectDocumentError(i, u, <<WS, "k">>) = "UnauthorizedApprover")
    /\ [][\A w \in WorkflowArgs, c \in EditConfigArgs :
            (/\ UpdateWorkflowError(w, <<c>>, <<>>) = "none"
             /\ UpdateWorkflow(w, <<c>>, <<>>))
            => /\ Len(workflows') = Len(workflows)
               /\ workflows'[w].configuracao = c
               /\ UNCHANGED <<historico, aprovacoes>>]_vars

\* an instance at stage 2 with user 2's approval of stage 2 in its ledger;
\* the definition has been edited since: user 2 is no longer an approver of
\* stage 2 and is refused, user 1 has become one and is accepted
C20_Witness ==
    \E i \in DOMAIN aprovacoes :
        /\ IsPending(i)
        /\ aprovacoes[i].estagio_atual = 2
        /\ 2 \in Voted(historico, i, 2)
        /\ 1 \in Voted(historico, i, 1)
        /\ ApproverSet(i) = {1}
        /\ ApproveDocumentError(i, 2, <<>>) = "UnauthorizedApprover"
        /\ ApproveDocumentError(i, 1, <<>>) = "none"

(***************************************************************************)
(* C21: setting a workflow's active flag to false makes later              *)
(* submitForApproval calls against that workflow fail without creating an  *)
(* instance, but changes nothing for instances already submitted under it: *)
(* their status, stage and ledger are untouched by the update, and approve *)
(* and reject on them behave exactly as if the workflow were still active. *)
(***************************************************************************)
\* this step is an update that made a workflow inactive
Deactivated ==
    /\ Len(workflows') = Len(workflows)
    /\ \E w \in DOMAIN workflows : workflows[w].ativo /\ ~workflows'[w].ativo

\* the workflow of instance i is inactive
OfInactive(i) == ~workflows[aprovacoes[i].workflow_id].ativo

C21_DeactivationFrame ==
    /\ [](\A w \in DOMAIN workflows, d \in DocArgs, u \in SubmitterArgs :
            ~workflows[w].ativo => SubmitForApprovalError(d, w, u) = "WorkflowInactive")
    /\ [][Len(aprovacoes') # Len(aprovacoes) =>
            workflows[aprovacoes'[Len(aprovacoes')].workflow_id].ativo]_vars
    /\ [][Deactivated =>
            /\ UNCHANGED <<aprovacoes, historico>>
            /\ \A i \in DOMAIN aprovacoes, u \in Users, c \in Comments :
                  /\ ApproveDocumentError(i, u, c)' = ApproveDocumentError(i, u, c)
                  /\ RejectDocumentError(i, u, c)' = RejectDocumentError(i, u, c)]_vars
    /\ [](\A i \in DOMAIN aprovacoes, u \in Users :
            (OfInactive(i) /\ IsPending(i) /\ u \in ApproverSet(i)) =>
               /\ ApproveDocumentError(i, u, <<>>) = "none"
               /\ RejectDocumentError(i, u, <<WS, "k">>) = "none")
    /\ [][\A i \in DOMAIN aprovacoes :
            /\ (OfInactive(i) /\ RejectStep(i)) => aprovacoes'[i].status = "rejeitado"
            /\ (OfInactive(i) /\ ApproveStep(i) /\ ~CurrentStage(i).require_all)
                  => StageCompleted(i, aprovacoes[i].estagio_atual)]_vars

\* an instance was approved at its first stage under a workflow that is
\* inactive and refuses submissions
C21_Witness ==
    \E i \in DOMAIN aprovacoes :
        /\ OfInactive(i)
        /\ aprovacoes[i].estagio_atual = 2
        /\ aprovacoes[i].status = "pendente"
        /\ \E u \in ApproverSet(i) : ApproveDocumentError(i, u, <<>>) = "none"
        /\ SubmitForApprovalError(2, aprovacoes[i].workflow_id, 4) = "WorkflowInactive"

(***************************************************************************)
(* C22: every successful grant, revoke, submitForApproval, approve and     *)
(* reject call issues a LogAction call to the audit collaborator for that  *)
(* operation.                                                              *)
(***************************************************************************)
C22_EveryCallAudited ==
    [][\A op \in {"submit_for_approval", "approve_document", "reject_document",
                  "grant_permission", "revoke_permission"} :
          Served(op, "returned") => calls'[1].audited]_vars

\* what the code does: approvals and rejections are audited, a grant when it
\* inserted a row, a revocation when it deleted one, a submission never
C22_AuditedCalls ==
    [][/\ Served("approve_document", "returned") => calls'[1].audited
       /\ Served("reject_document", "returned") => calls'[1].audited
       /\ Served("submit_for_approval", "returned") => ~calls'[1].audited
       /\ Served("grant_permission", "returned") =>
             (calls'[1].audited <=> Len(permissoes') = Len(permissoes) + 1)
       /\ Served("revoke_permission", "returned") =>
             (calls'[1].audited <=> Len(permissoes') = Len(permissoes) - 1)]_vars

(***************************************************************************)
(* C23: a require-all stage completes only when the set of distinct users  *)
(* with an approved ledger entry at that stage contains every user in the  *)
(* stage's approver set as configured at the time of the completing call;  *)
(* this also holds when the approver list was edited while the instance    *)
(* was at that stage and when the configured list names the same user more *)
(* than once.                                                              *)
(***************************************************************************)
C23_RequireAllConfiguredSet ==
    [][\A i \in DOMAIN aprovacoes :
          ( /\ ApproveStep(i)
            /\ HasCurrentStage(i)
            /\ CurrentStage(i).require_all
            /\ StageCompleted(i, aprovacoes[i].estagio_atual) )
          => ApproverSet(i) \subseteq Voted(historico', i, aprovacoes[i].estagio_atual)]_vars

\* what the code compares: the number of distinct voters of the stage with
\* the length of the configured list
C23_RequireAllCount ==
    [][\A i \in DOMAIN aprovacoes :
          ( /\ ApproveStep(i)
            /\ HasCurrentStage(i)
            /\ CurrentStage(i).require_all )
          => LET k == aprovacoes[i].estagio_atual IN
             IF Cardinality(Voted(historico', i, k)) >= Len(CurrentStage(i).approvers)
             THEN StageCompleted(i, k)
             ELSE aprovacoes'[i] = aprovacoes[i]]_vars

(***************************************************************************)
(* C24: on a require-all stage, repeated approve calls by the same         *)
(* approver count as one vote: however many times a single approver        *)
(* approves at a stage with two or more configured approvers, the stage    *)
(* does not complete until every other configured approver has approved    *)
(* too.                                                                    *)
(***************************************************************************)
\* the approver of this step had already approved at the stage of instance i
RepeatedVote(i) ==
    NewEntry.aprovador_id \in Voted(historico, i, aprovacoes[i].estagio_atual)

DefNameArgs == {"wf", "wf2"}
DefWorkflowArgs == {1, 2}

DefNext ==
    \/ \E nome \in DefNameArgs, c \in ConfigArgs : CreateWorkflow(nome, c)
    \/ \E w \in DefWorkflowArgs, c \in OptConfigArgs, a \in OptAtivoArgs :
          UpdateWorkflow(w, c, a)

DefSpec == Init /\ [][DefNext]_vars

(***************************************************************************)
(* C25: every workflow definition stored through createWorkflow or         *)
(* updateWorkflow has at least one stage, and each stage has a name and a  *)
(* non-empty approver list; a create or update whose configuration         *)
(* violates this fails with a validation error and leaves the stored       *)
(* definitions unchanged, and createWorkflow with a name already in use    *)
(* fails without creating a definition.                                    *)
(***************************************************************************)
\* at least one stage, each with a name and a non-empty approver list
WellFormed(c) ==
    /\ Len(c.stages) >= 1
    /\ \A k \in DOMAIN c.stages :
          /\ c.stages[k].name # MissingKey
          /\ Len(c.stages[k].approvers) >= 1

NamesInUse == { workflows[w].nome : w \in DOMAIN workflows }

C25_StoredDefinitionsValid ==
    /\ [](\A w \in DOMAIN workflows : WellFormed(workflows[w].configuracao))
    /\ [](\A c \in ConfigArgs, nome \in DefNameArgs :
            /\ ~WellFormed(c) => CreateWorkflowError(nome, c) = "InvalidWorkflowConfig"
            /\ nome \in NamesInUse => CreateWorkflowError(nome, c) # "none"
            /\ \A w \in DOMAIN workflows, a \in OptAtivoArgs :
                  ~WellFormed(c) => UpdateWorkflowError(w, <<c>>, a) = "InvalidWorkflowConfig")
    /\ [][\A c \in ConfigArgs :
            /\ \A nome \in DefNameArgs :
                  (CreateWorkflowError(nome, c) # "none" /\ CreateWorkflow(nome, c))
                     => workflows' = workflows
            /\ \A w \in DefWorkflowArgs, a \in OptAtivoArgs :
                  (UpdateWorkflowError(w, <<c>>, a) # "none" /\ UpdateWorkflow(w, <<c>>, a))
                     => workflows' = workflows]_vars
    /\ [][workflows' # workflows =>
            \/ /\ Len(workflows') = Len(workflows) + 1
               /\ SubSeq(workflows', 1, Len(workflows)) = workflows
               /\ workflows'[Len(workflows')].nome \notin NamesInUse
               /\ WellFormed(workflows'[Len(workflows')].configuracao)
            \/ /\ Len(workflows') = Len(workflows)
               /\ \A w \in DOMAIN workflows : WellFormed(workflows'[w].configuracao)]_vars

\* two definitions are stored, the first one with a configuration an update
\* gave it; a create under a name in use and an update with a configuration
\* without stages are both refused
C25_Witness ==
    /\ Len(workflows) = 2
    /\ workflows[1].configuracao = [stages |-> <<S123all>>]
    /\ workflows[2].configuracao = [stages |-> <<S123all>>]
    /\ ~workflows[1].ativo
    /\ CreateWorkflowError("wf2", [stages |-> <<S1, S23all>>]) = "DuplicateName"
    /\ CreateWorkflowError("wf", [stages |-> <<>>]) = "InvalidWorkflowConfig"
    /\ UpdateWorkflowError(2, << [stages |-> <<>>] >>, <<>>) = "InvalidWorkflowConfig"

(***************************************************************************)
(* C26: for every pending approval instance, after any sequence of         *)
(* submitForApproval, approve, reject and updateWorkflow calls,            *)
(* currentStage is between 1 and the number of stages in the current       *)
(* definition of its workflow, so the instance always has a stage whose    *)
(* approvers can approve or reject it and it cannot remain pending with no *)
(* user authorized to act.                                                 *)
(***************************************************************************)
C26_PendingStageInRange ==
    \A i \in DOMAIN aprovacoes :
        IsPending(i) =>
           /\ HasCurrentStage(i)
           /\ \E u \in Users : ApproveDocumentError(i, u, <<>>) = "none"

\* what the code keeps: the stage of a pending instance is at least 1, and
\* it is within the definition unless an update made the definition shorter
C26_PendingStageAtLeastOne ==
    \A i \in DOMAIN aprovacoes : IsPending(i) => aprovacoes[i].estagio_atual >= 1

(***************************************************************************)
(* reject_document served at the same time as other requests on the        *)
(* instance.                                                               *)
(***************************************************************************)
\* reject_document: the comment is checked, the instance is loaded into the
\* session and validated
RejectRead(p, aprovacao_id, aprovador_id, comentario) ==
    /\ Free(p)
    /\ IF RejectDocumentError(aprovacao_id, aprovador_id, comentario) # "none"
       THEN Raises
       ELSE /\ calls' = [calls EXCEPT ![p] =
                  [op |-> "reject_document",
                   pc |-> "commit",
                   aprovacao_id |-> aprovacao_id,
                   aprovador_id |-> aprovador_id,
                   aprovacao |-> aprovacoes[aprovacao_id]]]
            /\ UNCHANGED <<workflows, aprovacoes, historico, permissoes, now, categorias>>

\* reject_document: the commit of the ledger row and of the status and the
\* end date set on the loaded instance
RejectCommit(p) ==
    /\ calls[p].op = "reject_document"
    /\ calls[p].pc = "commit"
    /\ Len(historico) < MaxHist
    /\ LET c == calls[p] IN
       /\ historico' = Append(historico,
             HistoricoRow(c.aprovacao_id, c.aprovacao.estagio_atual,
                          c.aprovador_id, "rejeitado"))
       /\ aprovacoes' = [aprovacoes EXCEPT
             ![c.aprovacao_id].status = "rejeitado",
             ![c.aprovacao_id].data_conclusao = now]
    /\ calls' = [calls EXCEPT ![p] = Idle]
    /\ UNCHANGED <<workflows, permissoes, now, categorias>>

RaceCommentArgs == {<<>>, <<WS, "k">>}

(***************************************************************************)
(* The workflow engine serving approvals and rejections at the same time.  *)
(***************************************************************************)
RaceNext ==
    \/ \E c \in ConcConfigArgs : CreateWorkflow("wf", c)
    \/ \E d \in ConcDocArgs, w \in WorkflowArgs, u \in SubmitterArgs :
          SubmitForApproval(d, w, u)
    \/ \E p \in Procs, i \in ApprovalArgs, u \in ConcApproverArgs : ApproveRead(p, i, u)
    \/ \E p \in Procs : ApproveCheckStage(p)
    \/ \E p \in Procs : ApproveCommit(p)
    \/ \E p \in Procs, i \in ApprovalArgs, u \in ConcApproverArgs, c \in RaceCommentArgs :
          RejectRead(p, i, u, c)
    \/ \E p \in Procs : RejectCommit(p)

RaceSpec == Init /\ [][RaceNext]_vars

(***************************************************************************)
(* C27: in every reachable state, including states reached when an approve *)
(* and a reject on the same pending instance run concurrently, the         *)
(* instance's status is rejected if and only if its ledger contains a      *)
(* rejected entry; an instance with status approved never has a rejected   *)
(* entry in its ledger.                                                    *)
(***************************************************************************)
HasRejectedEntry(i) ==
    \E n \in DOMAIN historico :
        historico[n].aprovacao_id = i /\ historico[n].acao = "rejeitado"

C27_RejectedIffRejectedEntry ==
    \A i \in DOMAIN aprovacoes :
        /\ aprovacoes[i].status = "rejeitado" <=> HasRejectedEntry(i)
        /\ aprovacoes[i].status = "aprovado" => ~HasRejectedEntry(i)

\* what holds with the interleavings: a rejected instance has a rejected
\* entry in its ledger
C27_RejectedHasRejectedEntry ==
    \A i \in DOMAIN aprovacoes :
        aprovacoes[i].status = "rejeitado" => HasRejectedEntry(i)

(***************************************************************************)
(* C28: with an unchanged workflow definition, once every configured       *)
(* approver of a require-all stage has a committed approved entry in the   *)
(* ledger for that stage, the instance is no longer pending at that stage  *)
(* (it has advanced or is approved); this holds also when the approvers'   *)
(* approve calls ran concurrently, each evaluating the ledger before the   *)
(* others committed.                                                       *)
(***************************************************************************)
C28_AllVotedNotPendingThere ==
    \A i \in DOMAIN aprovacoes :
        ( /\ IsPending(i)
          /\ HasCurrentStage(i)
          /\ CurrentStage(i).require_all )
        => ~(ApproverSet(i) \subseteq Voted(historico, i, aprovacoes[i].estagio_atual))

(***************************************************************************)
(* cleanup_expired_permissions as a call, with the count it returns.       *)
(***************************************************************************)
CleanupExpiredPermissionsCallInclusive(p) ==
    LET Keep(r) == ~(r.data_expiracao # NULL /\ r.data_expiracao <= now) IN
    /\ Free(p)
    /\ permissoes' = SelectSeq(permissoes, Keep)
    /\ calls' = [calls EXCEPT ![p] =
          [op |-> "cleanup_expired_permissions",
           pc |-> "returned",
           count |-> Len(permissoes) - Len(SelectSeq(permissoes, Keep))]]
    /\ UNCHANGED <<workflows, aprovacoes, historico, now, categorias>>

\* PermissionService.cleanup_expired_permissions: the rows whose
\* data_expiracao is set and before now are deleted, their number is returned
CleanupExpiredPermissionsCall(p) ==
    LET Keep(r) == ~(r.data_expiracao # NULL /\ r.data_expiracao < now) IN
    /\ Free(p)
    /\ permissoes' = SelectSeq(permissoes, Keep)
    /\ calls' = [calls EXCEPT ![p] =
          [op |-> "cleanup_expired_permissions",
           pc |-> "returned",
           count |-> Len(permissoes) - Len(SelectSeq(permissoes, Keep))]]
    /\ UNCHANGED <<workflows, aprovacoes, historico, now, categorias>>

SweepKindArgs == {"visualizar", "editar"}
SweepGranterArgs == {1}

(***************************************************************************)
(* Grants with and without expiry, the clock, and the sweep.               *)
(***************************************************************************)
SweepNext ==
    \/ \E d \in GrantDocArgs, t \in ShareTargetArgs, k \in SweepKindArgs,
          g \in SweepGranterArgs, e \in ExpirationArgs : GrantPermission(d, t, k, g, e)
    \/ CleanupExpiredPermissionsCall(1)
    \/ Tick

SweepSpec == Init /\ [][SweepNext]_vars

(***************************************************************************)
(* C29: sweepExpired removes only grants whose expiry is before the        *)
(* current time and never a grant that check would still honor: for every  *)
(* document, user and kind, the result of check is the same immediately    *)
(* before and immediately after sweepExpired, and grants with no expiry or *)
(* a future expiry are left unchanged.                                     *)
(***************************************************************************)
C29_SweepKeepsCheck ==
    [][CleanupExpiredPermissionsCall(1) =>
          /\ \A d \in Documentos, u \in Users, k \in VALID_PERMISSION_TYPES :
                check_permission(d, u, k)' = check_permission(d, u, k)
          /\ Range(permissoes') \subseteq Range(permissoes)
          /\ \A r \in Range(permissoes) :
                /\ r \notin Range(permissoes') =>
                      r.data_expiracao # NULL /\ r.data_expiracao < now
                /\ (r.data_expiracao = NULL \/ r.data_expiracao >= now) =>
                      r \in Range(permissoes')
          /\ calls'[1].count = Len(permissoes) - Len(permissoes')]_vars

\* a sweep removed one grant, and a grant that expires at the current time
\* is still stored and honored by check
C29_Witness ==
    /\ calls[1].op = "cleanup_expired_permissions"
    /\ calls[1].count = 1
    /\ now = 1
    /\ Len(permissoes) = 1
    /\ permissoes[1].data_expiracao = now
    /\ permissoes[1].tipo_permissao = "editar"
    /\ check_permission(1, 2, "editar")
    /\ ~check_permission(1, 2, "excluir")

(***************************************************************************)
(* CategoryRepository and CategoryService.  A row of categorias keeps the  *)
(* two columns the hierarchy is made of: categoria_pai_id and ativo.       *)
(***************************************************************************)
\* CategoryRepository.get_subcategories: the active rows whose parent is
\* categoria_id
get_subcategories(categoria_id) ==
    { c \in DOMAIN categorias :
         /\ categorias[c].categoria_pai_id = categoria_id
         /\ categorias[c].ativo }

\* CategoryRepository.get_all_descendants.collect_descendants; the recursion
\* of the code ends because a chain of active children never closes
\* (NoActiveCycle), so it is never deeper than the number of rows
RECURSIVE collect_descendants(_, _)
collect_descendants(parent_id, depth) ==
    IF depth = 0 THEN {}
    ELSE LET children == get_subcategories(parent_id)
         IN  children \cup UNION { collect_descendants(child, depth - 1) : child \in children }

\* CategoryRepository.get_all_descendants, as the set of ids
get_all_descendants(categoria_id) == collect_descendants(categoria_id, Len(categorias))

\* CategoryRepository.can_move_to_parent
can_move_to_parent(categoria_id, new_parent_id) ==
    IF new_parent_id = NULL THEN TRUE
    ELSE IF categoria_id = new_parent_id THEN FALSE
    ELSE new_parent_id \notin get_all_descendants(categoria_id)

\* CategoryService.create_category: the foreign key of categoria_pai_id
CreateCategoryError(categoria_pai_id) ==
    IF categoria_pai_id # NULL /\ categoria_pai_id \notin DOMAIN categorias
    THEN "IntegrityError"
    ELSE "none"

\* CategoryService.create_category
CreateCategory(categoria_pai_id) ==
    IF CreateCategoryError(categoria_pai_id) # "none" THEN Raises
    ELSE /\ Len(categorias) < MaxCats
         /\ categorias' = Append(categorias,
               [categoria_pai_id |-> categoria_pai_id, ativo |-> TRUE])
         /\ UNCHANGED <<workflows, aprovacoes, historico, permissoes, now, calls>>

\* CategoryService.update_category: the checks before the save, and the
\* foreign key at the save
UpdateCategoryError(categoria_id, new_parent_id) ==
    IF categoria_id \notin DOMAIN categorias THEN "NotFound"
    ELSE IF /\ new_parent_id # categorias[categoria_id].categoria_pai_id
            /\ new_parent_id # NULL
            /\ ~can_move_to_parent(categoria_id, new_parent_id)
    THEN "CircularReference"
    ELSE IF new_parent_id # NULL /\ new_parent_id \notin DOMAIN categorias
    THEN "IntegrityError"
    ELSE "none"

\* CategoryService.update_category
UpdateCategory(categoria_id, new_parent_id) ==
    IF UpdateCategoryError(categoria_id, new_parent_id) # "none" THEN Raises
    ELSE /\ categorias' = [categorias EXCEPT ![categoria_id].categoria_pai_id = new_parent_id]
         /\ UNCHANGED <<workflows, aprovacoes, historico, permissoes, now, calls>>

\* CategoryService.delete_category: the checks before the save; doc_count is
\* what get_document_count returns for the category and its subcategories
DeleteCategoryError(categoria_id, doc_count) ==
    IF categoria_id \notin DOMAIN categorias THEN "NotFound"
    ELSE IF doc_count > 0 THEN "HasDocuments"
    ELSE "none"

\* CategoryService.delete_category: the row is kept and made inactive
DeleteCategory(categoria_id, doc_count) ==
    IF DeleteCategoryError(categoria_id, doc_count) # "none" THEN Raises
    ELSE /\ categorias' = [categorias EXCEPT ![categoria_id].ativo = FALSE]
         /\ UNCHANGED <<workflows, aprovacoes, historico, permissoes, now, calls>>

\* ids passed as categoria_id and as categoria_pai_id; an id past the end of
\* the table is the id of no row
CategoryArgs == 1..MaxCats
ParentArgs == {NULL} \cup CategoryArgs
DocCountArgs == {0, 1}

(***************************************************************************)
(* The category hierarchy: created, re-parented and deactivated.           *)
(***************************************************************************)
CatNext ==
    \/ \E pai \in ParentArgs : CreateCategory(pai)
    \/ \E c \in CategoryArgs, pai \in ParentArgs : UpdateCategory(c, pai)
    \/ \E c \in CategoryArgs, n \in DocCountArgs : DeleteCategory(c, n)

CatSpec == Init /\ [][CatNext]_vars

(***************************************************************************)
(* C30: after any sequence of category create, update (re-parent) and      *)
(* delete (deactivate) operations, the parent references of categories     *)
(* contain no cycle: no category is its own ancestor, including cycles     *)
(* that pass through a deactivated category.                               *)
(***************************************************************************)
\* the categories reached from c by following categoria_pai_id up to n times
RECURSIVE Ancestors(_, _)
Ancestors(c, n) ==
    IF n = 0 \/ categorias[c].categoria_pai_id = NULL THEN {}
    ELSE {categorias[c].categoria_pai_id}
            \cup Ancestors(categorias[c].categoria_pai_id, n - 1)

C30_NoParentCycle ==
    \A c \in DOMAIN categorias : c \notin Ancestors(c, Len(categorias))

\* the same walk through active categories only
RECURSIVE ActiveAncestors(_, _)
ActiveAncestors(c, n) ==
    IF n = 0 \/ categorias[c].categoria_pai_id = NULL
            \/ ~categorias[categorias[c].categoria_pai_id].ativo
    THEN {}
    ELSE {categorias[c].categoria_pai_id}
            \cup ActiveAncestors(categorias[c].categoria_pai_id, n - 1)

\* what the check of update_category keeps: no cycle made of active
\* categories only
NoActiveCycle ==
    \A c \in DOMAIN categorias :
        categorias[c].ativo => c \notin ActiveAncestors(c, Len(categorias))

====
